---- MODULE Spec2Model ----
(***************************************************************************)
(* Model of deepulse:                                                      *)
(*   - BrowserStateTracker (src/browser_use.py): bounded page-state        *)
(*     history with a "last stable URL" pointer and a consecutive-error    *)
(*     counter;                                                            *)
(*   - Agent._execute_commands with the page classification                *)
(*     (_ask_llm_about_page_state, _detect_page_error) and the recovery    *)
(*     handler (_handle_error_with_recovery); Agent._parse_commands and    *)
(*     Agent.run;                                                          *)
(*   - TestFramework (src/modules/test_framework.py);                      *)
(*   - SQLInjectionTester (src/modules/testers/sql_injection.py);          *)
(*   - LLMInterface (src/modules/llm_interface.py).                        *)
(*                                                                         *)
(* The specifications share the variables:                                 *)
(*   SpecTracker    drives the tracker through its public methods;         *)
(*   Spec           drives the agent through batches of commands;          *)
(*   SpecArgs       batches of the commands that read an argument list;    *)
(*   SpecFramework  calls of TestFramework.process_command;                *)
(*   SpecProbe      SQLInjectionTester._test_input_point;                  *)
(*   SpecTest       SQLInjectionTester.test, called again and again;       *)
(*   SpecDetect     Agent._detect_page_error on its own;                   *)
(*   SpecParse      Agent._parse_commands on its own;                      *)
(*   SpecRun        Agent.run (SpecRunFair: driven to its end);            *)
(*   SpecLLM        calls of LLMInterface.chat_completion;                 *)
(*   SpecReply      LLMInterface.get_chat_response and the parse of the    *)
(*                  reply.                                                 *)
(*                                                                         *)
(* Python's None is the string "None"; tri-state results are the strings   *)
(* "True", "False" and "None".                                             *)
(***************************************************************************)
EXTENDS Integers, Sequences, FiniteSets, TLC

\* ---------------------------------------------------------------- bounds
MaxHistory == 3      \* largest max_history a tracker is constructed with
MaxCalls == 4        \* tracker method calls in one behaviour of SpecTracker
MaxSteps == 2        \* commands run in one behaviour of Spec, over all batches
MaxCommands == 19    \* commands counted by the framework in SpecFramework
MaxPoints == 2       \* input points probed in one behaviour of SpecProbe
MaxRequests == 4     \* API requests counted before chat_completion is called again
MaxLines == 2        \* lines of a response given to _parse_commands
MaxRuns == 2         \* calls of test() on one tester in SpecTest

None == "None"

\* URLs the browser can be at.  page.url of a Playwright page is never
\* empty: a fresh page is at about:blank.
RealUrls == {"u1", "u2"}
PageUrls == RealUrls \cup {"about:blank"}
\* url arguments a caller can pass to a tracker method
ArgUrls == RealUrls \cup {"about:blank", ""}

\* ------------------------------------------------------------- sequences
RECURSIVE SelectSeqRec(_, _)
\* the subsequence of s from index i on (s[i..Len(s)])
SelectSeqRec(s, i) ==
  IF i > Len(s) THEN <<>> ELSE <<s[i]>> \o SelectSeqRec(s, i + 1)

\* s[-n:] of Python for n >= 0 (the last n elements; all of s when shorter)
LastN(s, n) ==
  IF n = 0 THEN <<>>
  ELSE IF Len(s) <= n THEN s ELSE SelectSeqRec(s, Len(s) - n + 1)

\* s[:-1] of Python
ButLast(s) == IF Len(s) = 0 THEN <<>> ELSE SubSeq(s, 1, Len(s) - 1)

\* ================================================= BrowserStateTracker
\* BrowserStateTracker.__init__
NewTracker(max_history, auto_recovery) ==
  [ url_history        |-> <<>>,
    state_history      |-> <<>>,
    last_stable_url    |-> None,
    max_history        |-> max_history,
    has_error          |-> FALSE,
    error_details      |-> None,
    auto_recovery      |-> auto_recovery,
    consecutive_errors |-> 0 ]

\* record_url with the eviction taken from the wrong end
record_url_pop_last(t, url, is_stable) ==
  IF url = "" \/ url = "about:blank" THEN t
  ELSE
    LET uh == Append(t.url_history, url)
        sh == Append(t.state_history, [url |-> url, is_stable |-> is_stable])
        over == Len(uh) > t.max_history
        t1 == [t EXCEPT !.url_history = IF over THEN ButLast(uh) ELSE uh,
                        !.state_history = IF over THEN ButLast(sh) ELSE sh]
    IN IF is_stable
       THEN [t1 EXCEPT !.last_stable_url = url,
                       !.has_error = FALSE,
                       !.error_details = None,
                       !.consecutive_errors = 0]
       ELSE t1

\* record_url that moves the stable pointer on every recorded state
record_url_any_stable(t, url, is_stable) ==
  IF url = "" \/ url = "about:blank" THEN t
  ELSE
    LET uh == Append(t.url_history, url)
        sh == Append(t.state_history, [url |-> url, is_stable |-> is_stable])
        over == Len(uh) > t.max_history
        t1 == [t EXCEPT !.url_history = IF over THEN Tail(uh) ELSE uh,
                        !.state_history = IF over THEN Tail(sh) ELSE sh,
                        !.last_stable_url = url]
    IN IF is_stable
       THEN [t1 EXCEPT !.has_error = FALSE,
                       !.error_details = None,
                       !.consecutive_errors = 0]
       ELSE t1

\* record_url that resets the error state on every recorded state
record_url_reset_any(t, url, is_stable) ==
  IF url = "" \/ url = "about:blank" THEN t
  ELSE
    LET uh == Append(t.url_history, url)
        sh == Append(t.state_history, [url |-> url, is_stable |-> is_stable])
        over == Len(uh) > t.max_history
        t1 == [t EXCEPT !.url_history = IF over THEN Tail(uh) ELSE uh,
                        !.state_history = IF over THEN Tail(sh) ELSE sh,
                        !.has_error = FALSE,
                        !.error_details = None,
                        !.consecutive_errors = 0]
    IN IF is_stable THEN [t1 EXCEPT !.last_stable_url = url] ELSE t1

\* BrowserStateTracker.record_url (page_title and timestamp are not modelled:
\* nothing reads them)
record_url(t, url, is_stable) ==
  IF url = "" \/ url = "about:blank" THEN t
  ELSE
    LET uh == Append(t.url_history, url)
        sh == Append(t.state_history, [url |-> url, is_stable |-> is_stable])
        over == Len(uh) > t.max_history
        t1 == [t EXCEPT !.url_history = IF over THEN Tail(uh) ELSE uh,
                        !.state_history = IF over THEN Tail(sh) ELSE sh]
    IN IF is_stable
       THEN [t1 EXCEPT !.last_stable_url = url,
                       !.has_error = FALSE,
                       !.error_details = None,
                       !.consecutive_errors = 0]
       ELSE t1

\* mark_error that records the error page as a stable state
mark_error_stable(t, url) ==
  record_url([t EXCEPT !.has_error = TRUE,
                       !.error_details = "set",
                       !.consecutive_errors = @ + 1],
             url, TRUE)

\* mark_error that sets the counter instead of incrementing it
mark_error_no_count(t, url) ==
  record_url([t EXCEPT !.has_error = TRUE,
                       !.error_details = "set",
                       !.consecutive_errors = 1],
             url, FALSE)

\* BrowserStateTracker.mark_error
mark_error(t, url) ==
  record_url([t EXCEPT !.has_error = TRUE,
                       !.error_details = "set",
                       !.consecutive_errors = @ + 1],
             url, FALSE)

RECURSIVE LastStableIn(_)
\* the url of the last entry of a state history with is_stable, else None
\* (the loop "for state in reversed(...)" of get_recovery_url)
LastStableIn(sh) ==
  IF Len(sh) = 0 THEN None
  ELSE IF sh[Len(sh)].is_stable THEN sh[Len(sh)].url
  ELSE LastStableIn(ButLast(sh))

\* get_recovery_url falling back to the oldest URL of the history
get_recovery_url_oldest(t) ==
  IF t.last_stable_url # None /\ t.last_stable_url # "" THEN t.last_stable_url
  ELSE IF LastStableIn(ButLast(t.state_history)) # None
       THEN LastStableIn(ButLast(t.state_history))
  ELSE IF Len(t.url_history) > 0 THEN t.url_history[1]
  ELSE None

\* BrowserStateTracker.get_recovery_url
get_recovery_url(t) ==
  IF t.last_stable_url # None /\ t.last_stable_url # "" THEN t.last_stable_url
  ELSE IF LastStableIn(ButLast(t.state_history)) # None
       THEN LastStableIn(ButLast(t.state_history))
  ELSE IF Len(t.url_history) > 1 THEN t.url_history[Len(t.url_history) - 1]
  ELSE IF Len(t.url_history) > 0 THEN t.url_history[1]
  ELSE None

\* BrowserStateTracker.should_auto_recover
should_auto_recover(t) ==
  IF t.consecutive_errors >= 2 THEN TRUE
  ELSE t.has_error /\ t.auto_recovery

\* BrowserStateTracker.clear
clear(t) ==
  [t EXCEPT !.url_history = <<>>,
            !.state_history = <<>>,
            !.last_stable_url = None,
            !.has_error = FALSE,
            !.error_details = None,
            !.consecutive_errors = 0]

\* BrowserStateTracker.get_suggestion: "" or a hint, escalated at >= 2 errors
get_suggestion(t) ==
  IF t.has_error /\ t.last_stable_url # None
  THEN IF t.consecutive_errors >= 2 THEN "strong" ELSE "soft"
  ELSE ""

\* ==================================================== page classification
\* What one observation of the current page shows: the HTTP status of the
\* first performance entry (0 when there is none), whether the body matches
\* a strict SQL-error signature, contains a generic HTTP-error phrase, is
\* empty after trimming, whether window.jsErrors is non-empty, and the two
\* features the advisory path looks for in the page summary.
Sig(status, sql, phrase, empty, js, welcome, errtext) ==
  [status |-> status, sql |-> sql, phrase |-> phrase, empty |-> empty,
   js |-> js, welcome |-> welcome, errtext |-> errtext]

PageSignals ==
  { Sig(200, FALSE, FALSE, FALSE, FALSE, TRUE,  FALSE),   \* welcome page
    Sig(200, FALSE, FALSE, FALSE, FALSE, FALSE, FALSE),   \* plain page
    Sig(404, FALSE, TRUE,  FALSE, FALSE, FALSE, FALSE),   \* HTTP error
    Sig(0,   TRUE,  FALSE, FALSE, FALSE, FALSE, TRUE),    \* SQL error text
    Sig(200, FALSE, FALSE, TRUE,  TRUE,  FALSE, FALSE),   \* empty, JS error
    Sig(200, FALSE, FALSE, FALSE, TRUE,  FALSE, FALSE) }  \* JS error only

\* _detect_page_error looking at the JS errors before the empty body
_detect_page_error_js_first(sig) ==
  IF sig.status >= 400 THEN [has_error |-> TRUE, level |-> 3]
  ELSE IF sig.sql THEN [has_error |-> TRUE, level |-> 3]
  ELSE IF sig.phrase THEN [has_error |-> TRUE, level |-> 3]
  ELSE IF sig.js THEN [has_error |-> TRUE, level |-> 1]
  ELSE IF sig.empty THEN [has_error |-> TRUE, level |-> 2]
  ELSE [has_error |-> FALSE, level |-> 0]

\* Agent._detect_page_error: first matching rule wins
_detect_page_error(sig) ==
  IF sig.status >= 400 THEN [has_error |-> TRUE, level |-> 3]
  ELSE IF sig.sql THEN [has_error |-> TRUE, level |-> 3]
  ELSE IF sig.phrase THEN [has_error |-> TRUE, level |-> 3]
  ELSE IF sig.empty THEN [has_error |-> TRUE, level |-> 2]
  ELSE IF sig.js THEN [has_error |-> TRUE, level |-> 1]
  ELSE [has_error |-> FALSE, level |-> 0]

\* How the advisory request can end: the POST raises; the HTTP status is not
\* 200; the JSON has no choices; the JSON cannot be parsed or lacks the
\* message; the answer carries the tag "status: normal" / "status: error";
\* the answer has no tag and matches only normal keywords, only error
\* keywords, or both/neither.
LLMFailures == {"exception", "status_not_200", "no_choices", "malformed"}
LLMReplies == LLMFailures \cup
  {"tag_normal", "tag_error", "kw_normal", "kw_error", "kw_unclear"}

\* Agent._ask_llm_about_page_state: "True", "False" or "None"
_ask_llm_about_page_state(key, reply, sig) ==
  IF ~key THEN "False"
  ELSE IF reply = "exception" THEN "None"
  ELSE IF reply = "status_not_200" THEN "False"
  ELSE IF reply = "no_choices" THEN "False"
  ELSE IF reply = "malformed" THEN "None"
  ELSE IF reply = "tag_normal" THEN "True"
  ELSE IF reply = "tag_error" THEN "False"
  ELSE IF reply = "kw_normal" THEN "True"
  ELSE IF reply = "kw_error" THEN "False"
  ELSE IF sig.welcome THEN "True"
  ELSE IF sig.errtext THEN "False"
  ELSE "None"

\* the branch of _execute_commands on the advisory verdict, taking the rule
\* result whatever the verdict is
ClassifyPage_rule_first(is_normal, sig) ==
  LET rule == _detect_page_error(sig)
  IN [anomaly |-> rule.has_error, level |-> rule.level, detect_called |-> TRUE]

\* the branch of _execute_commands on the advisory verdict, with the rule
\* evaluator run on every page
ClassifyPage_always_detect(is_normal, sig) ==
  IF is_normal # "None"
  THEN [anomaly |-> is_normal = "False",
        level |-> IF is_normal = "False" THEN 3 ELSE 0,
        detect_called |-> TRUE]
  ELSE LET rule == _detect_page_error(sig)
       IN [anomaly |-> rule.has_error, level |-> rule.level,
           detect_called |-> TRUE]

\* The branch of _execute_commands after a successful GOTO / CLICK: a
\* determinate verdict decides (abnormal is level 3); _detect_page_error is
\* called only when the verdict is None.
ClassifyPage(is_normal, sig) ==
  IF is_normal # "None"
  THEN [anomaly |-> is_normal = "False",
        level |-> IF is_normal = "False" THEN 3 ELSE 0,
        detect_called |-> FALSE]
  ELSE LET rule == _detect_page_error(sig)
       IN [anomaly |-> rule.has_error, level |-> rule.level,
           detect_called |-> TRUE]

\* ============================================================= recovery
\* the handler body shared by the variants below: recover says whether the
\* two conditions of the handler let a recovery be attempted
HandlerResult(t1, purl, error_level, attempt, goto_ok, back_ok, back_to) ==
  LET recovery_url == get_recovery_url(t1)
      try_goto == attempt /\ recovery_url # None /\ recovery_url # ""
      via_goto == try_goto /\ goto_ok
      try_back == attempt /\ ~via_goto
      via_back == try_back /\ back_ok
      recovered == via_goto \/ via_back
      r_attempt ==
        IF attempt
        THEN <<"recovering">>
             \o (IF try_goto
                 THEN (IF goto_ok THEN <<"recovered_goto">>
                       ELSE <<"recover_goto_failed">>)
                 ELSE <<>>)
             \o (IF try_back
                 THEN (IF back_ok THEN <<"recovered_back">>
                       ELSE <<"go_back_failed">>)
                 ELSE <<>>)
        ELSE <<>>
      r_suggest ==
        IF recovered THEN <<>>
        ELSE IF error_level >= 2
             THEN (IF recovery_url # None THEN <<"suggest_goto">> ELSE <<>>)
        ELSE IF error_level = 1
             THEN (IF get_suggestion(t1) # "" THEN <<"suggestion">> ELSE <<>>)
        ELSE <<>>
  IN [tracker   |-> t1,
      results   |-> <<"error_detected">> \o r_attempt \o r_suggest,
      recovered |-> recovered,
      nav       |-> (IF try_goto THEN {"goto"} ELSE {})
                      \cup (IF try_back THEN {"go_back"} ELSE {}),
      page_url  |-> IF via_goto THEN recovery_url
                    ELSE IF via_back THEN back_to ELSE purl]

\* the handler without the auto_recovery switch
_handle_error_no_switch(t, purl, error_level, ar, erl, goto_ok, back_ok, back_to) ==
  LET t1 == IF purl # "" THEN mark_error(t, purl) ELSE t
      should_recover == error_level >= erl
  IN HandlerResult(t1, purl, error_level,
                   (should_recover \/ should_auto_recover(t1))
                     /\ (error_level >= 3 \/ t1.consecutive_errors >= 2),
                   goto_ok, back_ok, back_to)

\* Agent._handle_error_with_recovery: marks the error, then attempts the
\* recovery navigation (goto recovery URL, else go back) when auto_recovery
\* is on, the level reaches the threshold or the tracker asks for recovery,
\* and the level is >= 3 or there are >= 2 consecutive errors.
\* goto_ok / back_ok: whether page.goto / page.go_back succeed if attempted;
\* back_to: where go_back lands.
_handle_error_with_recovery(t, purl, error_level, ar, erl, goto_ok, back_ok, back_to) ==
  LET t1 == IF purl # "" THEN mark_error(t, purl) ELSE t
      should_recover == error_level >= erl
  IN HandlerResult(t1, purl, error_level,
                   ar /\ (should_recover \/ should_auto_recover(t1))
                      /\ (error_level >= 3 \/ t1.consecutive_errors >= 2),
                   goto_ok, back_ok, back_to)

\* the loop of _execute_commands going on after a recovery
LoopContinues_no_break(recovery_executed) == TRUE

\* "if recovery_executed: break" of _execute_commands
LoopContinues(recovery_executed) == ~recovery_executed

\* ======================================================== TestFramework
PHASE_RECON == 1
PHASE_BASELINE == 2
PHASE_PLANNING == 3
PHASE_EXPLOIT == 4

\* TestFramework.__init__ (timestamps are not kept; guided says whether
\* last_guidance_time has been set since construction)
NewFramework ==
  [ current_phase       |-> PHASE_RECON,
    phase_progress      |-> 0,
    security_mechanisms |-> <<>>,
    input_points        |-> <<>>,
    guided              |-> FALSE,
    phase_intro_sent    |-> [p \in PHASE_RECON..PHASE_EXPLOIT |-> p = PHASE_RECON],
    discoveries         |-> <<>>,
    command_counter     |-> 0 ]

\* A command string as process_command reads it: empty, or the verb before
\* the first blank and the content after it.  Of the content: its first
\* word, whether it has a second word, and which of the terms the framework
\* searches for it contains:
\*   "yzm" the word for a verification code, "yzm_error" that word followed
\*   by the word for wrong, "right" the word for correct, "captcha", "csrf",
\*   "login" the word for logging in, "sql", "quote" (a quote, --, UNION or
\*   SELECT), "script" (<script>, alert or onerror), "long" for a content
\*   of more than 50 characters.
FCmd(verb, first, words, marks) ==
  [empty |-> FALSE, verb |-> verb, first |-> first, words |-> words,
   marks |-> marks]

EmptyCmd == [empty |-> TRUE, verb |-> "", first |-> "", words |-> 0, marks |-> {}]

\* TestFramework._add_security_mechanism
_add_security_mechanism(f, mech_type) ==
  IF \E i \in 1..Len(f.security_mechanisms) : f.security_mechanisms[i] = mech_type
  THEN f
  ELSE [f EXCEPT !.security_mechanisms = Append(@, mech_type)]

\* TestFramework._add_input_point
_add_input_point(f, selector) ==
  IF \E i \in 1..Len(f.input_points) : f.input_points[i] = selector
  THEN f
  ELSE [f EXCEPT !.input_points = Append(@, selector)]

\* TestFramework._add_discovery
_add_discovery(f, description) ==
  [f EXCEPT !.discoveries =
     Append(@, [description |-> description, phase |-> f.current_phase])]

\* _check_phase_transition that leaves Recon on progress and one security
\* mechanism alone
_check_phase_transition_no_inputs(f) ==
  IF f.current_phase = PHASE_RECON /\ f.phase_progress >= 80
  THEN IF Len(f.security_mechanisms) >= 1
       THEN [f EXCEPT !.current_phase = PHASE_BASELINE, !.phase_progress = 0]
       ELSE f
  ELSE IF f.current_phase = PHASE_BASELINE /\ f.phase_progress >= 60
  THEN [f EXCEPT !.current_phase = PHASE_PLANNING, !.phase_progress = 0]
  ELSE IF f.current_phase = PHASE_PLANNING /\ f.phase_progress >= 70
  THEN [f EXCEPT !.current_phase = PHASE_EXPLOIT, !.phase_progress = 0]
  ELSE f

\* _check_phase_transition that keeps the progress on leaving Recon and
\* checks the phases one after the other
_check_phase_transition_cascade(f) ==
  LET f1 == IF f.current_phase = PHASE_RECON /\ f.phase_progress >= 80
               /\ Len(f.security_mechanisms) >= 1 /\ Len(f.input_points) >= 2
            THEN [f EXCEPT !.current_phase = PHASE_BASELINE]
            ELSE f
      f2 == IF f1.current_phase = PHASE_BASELINE /\ f1.phase_progress >= 60
            THEN [f1 EXCEPT !.current_phase = PHASE_PLANNING]
            ELSE f1
  IN IF f2.current_phase = PHASE_PLANNING /\ f2.phase_progress >= 70
     THEN [f2 EXCEPT !.current_phase = PHASE_EXPLOIT, !.phase_progress = 0]
     ELSE IF f2.current_phase # f.current_phase
     THEN [f2 EXCEPT !.phase_progress = 0]
     ELSE f2

\* _check_phase_transition that leaves Baseline above 60 only
_check_phase_transition_strict(f) ==
  IF f.current_phase = PHASE_RECON /\ f.phase_progress >= 80
  THEN IF Len(f.security_mechanisms) >= 1 /\ Len(f.input_points) >= 2
       THEN [f EXCEPT !.current_phase = PHASE_BASELINE, !.phase_progress = 0]
       ELSE f
  ELSE IF f.current_phase = PHASE_BASELINE /\ f.phase_progress > 60
  THEN [f EXCEPT !.current_phase = PHASE_PLANNING, !.phase_progress = 0]
  ELSE IF f.current_phase = PHASE_PLANNING /\ f.phase_progress >= 70
  THEN [f EXCEPT !.current_phase = PHASE_EXPLOIT, !.phase_progress = 0]
  ELSE f

\* TestFramework._check_phase_transition
_check_phase_transition(f) ==
  IF f.current_phase = PHASE_RECON /\ f.phase_progress >= 80
  THEN IF Len(f.security_mechanisms) >= 1 /\ Len(f.input_points) >= 2
       THEN [f EXCEPT !.current_phase = PHASE_BASELINE, !.phase_progress = 0]
       ELSE f
  ELSE IF f.current_phase = PHASE_BASELINE /\ f.phase_progress >= 60
  THEN [f EXCEPT !.current_phase = PHASE_PLANNING, !.phase_progress = 0]
  ELSE IF f.current_phase = PHASE_PLANNING /\ f.phase_progress >= 70
  THEN [f EXCEPT !.current_phase = PHASE_EXPLOIT, !.phase_progress = 0]
  ELSE f

\* the state updates of _update_state_from_command, before the cap on the
\* progress and the phase check
UpdateByPhase(f, cmd) ==
  IF f.current_phase = PHASE_RECON THEN
    LET f1 == IF cmd.verb = "THINK" /\ cmd.marks \cap {"yzm", "captcha"} # {}
              THEN [_add_security_mechanism(f, "captcha")
                      EXCEPT !.phase_progress = @ + 10]
              ELSE f
        f2 == IF cmd.verb = "THINK" /\ "csrf" \in cmd.marks
              THEN [_add_security_mechanism(f1, "csrf")
                      EXCEPT !.phase_progress = @ + 10]
              ELSE f1
        f3 == IF cmd.verb = "TYPE"
              THEN [_add_input_point(f2, cmd.first)
                      EXCEPT !.phase_progress = @ + 5]
              ELSE f2
        f4 == IF cmd.verb = "GOTO" \/ cmd.verb = "CLICK"
              THEN [f3 EXCEPT !.phase_progress = @ + 3]
              ELSE f3
    IN IF cmd.verb = "SCREENSHOT"
       THEN [f4 EXCEPT !.phase_progress = @ + 2]
       ELSE f4
  ELSE IF f.current_phase = PHASE_BASELINE THEN
    LET f1 == IF cmd.verb = "TYPE" /\ cmd.words > 1
              THEN [f EXCEPT !.phase_progress = @ + 5]
              ELSE f
        f2 == IF cmd.verb = "CLICK" /\ "login" \in cmd.marks
              THEN _add_discovery([f1 EXCEPT !.phase_progress = @ + 10],
                                  "login_flow")
              ELSE f1
    IN IF cmd.verb = "TYPE" /\ "yzm" \in cmd.marks
       THEN _add_discovery([f2 EXCEPT !.phase_progress = @ + 8],
                           "captcha_handled")
       ELSE f2
  ELSE IF f.current_phase = PHASE_PLANNING THEN
    IF cmd.verb = "THINK" /\ cmd.marks \cap {"sql", "csrf"} # {}
    THEN LET f1 == [f EXCEPT !.phase_progress = @ + 10]
         IN IF "csrf" \in cmd.marks THEN _add_discovery(f1, "plan_csrf")
            ELSE f1
    ELSE f
  ELSE IF f.current_phase = PHASE_EXPLOIT THEN
    LET f1 == IF cmd.verb = "TYPE" /\ "quote" \in cmd.marks
              THEN _add_discovery([f EXCEPT !.phase_progress = @ + 5],
                                  "sql_test")
              ELSE f
    IN IF cmd.verb = "TYPE" /\ "script" \in cmd.marks
       THEN _add_discovery([f1 EXCEPT !.phase_progress = @ + 5], "xss_test")
       ELSE f1
  ELSE f

\* no limit on phase_progress
CapProgress_none(f) == f

\* phase_progress = min(100, phase_progress)
CapProgress(f) ==
  [f EXCEPT !.phase_progress = IF @ > 100 THEN 100 ELSE @]

\* TestFramework._update_state_from_command
_update_state_from_command(f, cmd) ==
  _check_phase_transition(CapProgress(UpdateByPhase(f, cmd)))

\* TestFramework._check_event_guidance: a message or None
_check_event_guidance(f, cmd) ==
  IF f.current_phase >= PHASE_BASELINE /\ cmd.verb = "TYPE"
       /\ cmd.marks \cap {"yzm", "captcha"} # {}
  THEN "feedback_captcha"
  ELSE IF f.current_phase >= PHASE_BASELINE /\ cmd.verb = "THINK"
            /\ "yzm_error" \in cmd.marks
  THEN "feedback_captcha_failed"
  ELSE IF f.current_phase = PHASE_EXPLOIT /\ cmd.verb = "TYPE"
            /\ "quote" \in cmd.marks
  THEN "feedback_sql"
  ELSE IF f.current_phase = PHASE_EXPLOIT /\ cmd.verb = "TYPE"
            /\ "script" \in cmd.marks
  THEN "feedback_xss"
  ELSE IF cmd.verb = "THINK" /\ "long" \in cmd.marks /\ "yzm" \in cmd.marks
            /\ "right" \notin cmd.marks
  THEN "feedback_captcha_first"
  ELSE None

\* the phase_intros table of _check_phase_intro: no entry for Recon
PhaseIntros(phase) ==
  IF phase = PHASE_BASELINE THEN "intro_baseline"
  ELSE IF phase = PHASE_PLANNING THEN "intro_planning"
  ELSE IF phase = PHASE_EXPLOIT THEN "intro_exploit"
  ELSE None

\* TestFramework._check_phase_intro: the framework afterwards and the
\* introduction returned (None for none)
_check_phase_intro(f) ==
  IF ~f.phase_intro_sent[f.current_phase]
  THEN [framework |-> [f EXCEPT !.phase_intro_sent[f.current_phase] = TRUE],
        intro |-> PhaseIntros(f.current_phase)]
  ELSE [framework |-> f, intro |-> None]

\* TestFramework._should_send_guidance.  elapsed: whether guidance_interval
\* seconds have passed since last_guidance_time (always so while it is 0)
_should_send_guidance(f, elapsed) ==
  (elapsed \/ ~f.guided) /\ f.command_counter % 10 = 0

\* process_command that looks at the periodic guidance before the phase
\* introduction
process_command_periodic_first(f, cmd, elapsed) ==
  IF cmd.empty THEN [framework |-> f, guidance |-> None]
  ELSE
    LET f1 == _update_state_from_command(
                [f EXCEPT !.command_counter = @ + 1], cmd)
    IN IF _should_send_guidance(f1, elapsed)
       THEN [framework |-> [f1 EXCEPT !.guided = TRUE],
             guidance |-> "periodic"]
       ELSE LET pi == _check_phase_intro(f1)
            IN IF pi.intro # None
               THEN [framework |-> pi.framework, guidance |-> pi.intro]
               ELSE [framework |-> pi.framework,
                     guidance |-> _check_event_guidance(pi.framework, cmd)]

\* TestFramework.process_command: the framework afterwards and the guidance
\* message returned (None for none)
process_command(f, cmd, elapsed) ==
  IF cmd.empty THEN [framework |-> f, guidance |-> None]
  ELSE
    LET f1 == _update_state_from_command(
                [f EXCEPT !.command_counter = @ + 1], cmd)
        pi == _check_phase_intro(f1)
        f2 == pi.framework
    IN IF pi.intro # None
       THEN [framework |-> f2, guidance |-> pi.intro]
       ELSE IF _should_send_guidance(f2, elapsed)
       THEN [framework |-> [f2 EXCEPT !.guided = TRUE],
             guidance |-> "periodic"]
       ELSE [framework |-> f2, guidance |-> _check_event_guidance(f2, cmd)]

\* =================================================== SQLInjectionTester
BooleanPayloads == 4     \* len(self.payloads["boolean_based"])
ErrorPayloads == 6       \* len(self.payloads["error_based"])
OrderByBases == 3        \* the quote, double quote and parenthesis prefixes
max_columns == 10

\* What get_page_text returns after a payload was submitted, as far as the
\* boolean oracle and its claims look at it: the length of the text, whether
\* it contains "no results", and whether it is a SQL parse-error page.
Resp(len, no_results, parse_error) ==
  [len |-> len, no_results |-> no_results, parse_error |-> parse_error]

RespLengths == {100, 110, 150, 151}
Responses ==
  {Resp(l, n, e) : l \in RespLengths, n \in BOOLEAN, e \in BOOLEAN}

\* the requests a probe makes of the page, in order
Inject(tech, n) == [op |-> "inject", tech |-> tech, n |-> n]
GoBack == [op |-> "back", tech |-> "", n |-> 0]

\* the comparison of _test_boolean_injection on one true/false pair
BooleanOracle(t, f) ==
  /\ t # f
  /\ (t.len - f.len > 50 \/ f.no_results)

RECURSIVE BooleanFrom(_, _)
\* the loop of _test_boolean_injection from pair number i on; pairs[i] holds
\* the texts the true and the false payload of pair i produce
BooleanFrom(i, pairs) ==
  IF 2 * i > BooleanPayloads
  THEN [vulnerable |-> FALSE, payload |-> 0, events |-> <<>>, last |-> i - 1]
  ELSE LET ev == << Inject("boolean", 2 * i - 1), GoBack,
                    Inject("boolean", 2 * i), GoBack >>
       IN IF BooleanOracle(pairs[i].t, pairs[i].f)
          THEN [vulnerable |-> TRUE, payload |-> 2 * i - 1, events |-> ev,
                last |-> i]
          ELSE LET rest == BooleanFrom(i + 1, pairs)
               IN [rest EXCEPT !.events = ev \o @]

\* SQLInjectionTester._test_boolean_injection
_test_boolean_injection(pairs) == BooleanFrom(1, pairs)

RECURSIVE ErrorFrom(_, _)
\* the loop of _test_error_injection from payload i on; hits: the payloads
\* whose response contains a SQL error keyword
ErrorFrom(i, hits) ==
  IF i > ErrorPayloads
  THEN [vulnerable |-> FALSE, payload |-> 0, events |-> <<>>]
  ELSE LET ev == << Inject("error", i), GoBack >>
       IN IF i \in hits
          THEN [vulnerable |-> TRUE, payload |-> i, events |-> ev]
          ELSE LET rest == ErrorFrom(i + 1, hits)
               IN [rest EXCEPT !.events = ev \o @]

\* SQLInjectionTester._test_error_injection
_test_error_injection(hits) == ErrorFrom(1, hits)

\* How the page answers ORDER BY probes: with an error text from column
\* number k on (k = max_columns + 1: never), and for the prefixes of bad
\* whatever the column number.
OrderByErrors(env, i, base) == i >= env.k \/ base \in env.bad

RECURSIVE OrderByFrom(_, _, _, _)
\* the two nested loops of _test_union_injection from column number i and
\* prefix base on; column_count is the value the variable has so far
OrderByFrom(i, base, column_count, env) ==
  IF i > max_columns
  THEN [column_count |-> column_count, events |-> <<>>, first_fail |-> 0]
  ELSE IF base > OrderByBases
  THEN IF column_count > 0
       THEN [column_count |-> column_count, events |-> <<>>, first_fail |-> 0]
       ELSE OrderByFrom(i + 1, 1, column_count, env)
  ELSE IF OrderByErrors(env, i, base)
  THEN \* column_count = i - 1; break: the page is not restored
       IF i - 1 > 0
       THEN [column_count |-> i - 1,
             events |-> << Inject("order_by", i) >>, first_fail |-> i]
       ELSE LET rest == OrderByFrom(i + 1, 1, i - 1, env)
            IN [rest EXCEPT !.events = << Inject("order_by", i) >> \o @,
                            !.first_fail = i]
  ELSE LET rest == OrderByFrom(i, base + 1, column_count, env)
       IN [rest EXCEPT !.events = << Inject("order_by", i), GoBack >> \o @]

\* SQLInjectionTester._test_union_injection.  env.echo: whether the text
\* after the UNION SELECT payload shows one of its numbers that the
\* original text does not show.
_test_union_injection(env) ==
  LET o == OrderByFrom(1, 1, 0, env)
      sent == o.column_count > 0
  IN [vulnerable   |-> sent /\ env.echo,
      columns      |-> IF sent /\ env.echo THEN o.column_count ELSE 0,
      column_count |-> o.column_count,
      first_fail   |-> o.first_fail,
      events       |-> o.events
                       \o (IF sent
                           THEN << Inject("union", o.column_count), GoBack >>
                           ELSE <<>>)]

\* _test_input_point going on to the next technique after a finding
AfterTechnique_no_stop(vulnerable, next) == next

\* _test_input_point after a technique: "return True" on a finding, else
\* the next technique (or the end of the function)
AfterTechnique(vulnerable, next) == IF vulnerable THEN "done" ELSE next

\* SQLInjectionTester._test_input_point as a whole: whether the input point
\* is injectable, the technique that confirmed it and self.column_count
\* afterwards, which only a union finding assigns (line 220)
_test_input_point(column_count, pairs, hits, env) ==
  LET b == _test_boolean_injection(pairs)
      e == _test_error_injection(hits)
      u == _test_union_injection(env)
  IN IF b.vulnerable
     THEN [is_injectable |-> TRUE, technique |-> "boolean",
           column_count |-> column_count]
     ELSE IF e.vulnerable
     THEN [is_injectable |-> TRUE, technique |-> "error",
           column_count |-> column_count]
     ELSE IF u.vulnerable
     THEN [is_injectable |-> TRUE, technique |-> "union",
           column_count |-> u.columns]
     ELSE [is_injectable |-> FALSE, technique |-> None,
           column_count |-> column_count]

\* what test() did with the input point it handled last; column_from is
\* the <<run, point>> whose union finding assigned the column count that
\* the extraction used
NoPoint ==
  [tested |-> FALSE, is_injectable |-> FALSE, technique |-> None,
   extracted |-> FALSE, extract_columns |-> 0, column_from |-> <<0, 0>>]

\* BaseTester.__init__ and the position of test(): test_results' status
\* and vulnerable_points (by <<run, point>>), the local vulnerable_inputs
\* (counted), the input points collected and the index of the loop
NewTest ==
  [pc |-> "idle", run |-> 0, point |-> 0, n_points |-> 0,
   status |-> "not_started", vulnerable_points |-> <<>>,
   vulnerable_inputs |-> 0, column_from |-> <<0, 0>>, last |-> NoPoint]

\* BaseTester.record_vulnerability
record_vulnerability(t, details) ==
  [t EXCEPT !.vulnerable_points = Append(@, details),
            !.status = "vulnerable"]

\* the status test() sets after its loop (lines 137-151)
SummaryStatus(vulnerable_inputs) ==
  IF vulnerable_inputs > 0 THEN "vulnerable" ELSE "secure"

\* the condition under which test() calls _extract_database_info for an
\* injectable input point (line 134)
ShouldExtract(column_count) == column_count > 0

\* process_command together with the record of what the call did
FrameworkCall(f, cmd, elapsed) ==
  LET r == process_command(f, cmd, elapsed)
      checked == CapProgress(UpdateByPhase(
                   [f EXCEPT !.command_counter = @ + 1], cmd))
  IN [framework |-> r.framework,
      trace |-> [called |-> TRUE, cmd |-> cmd,
                 phase_before |-> f.current_phase,
                 progress_before |-> f.phase_progress,
                 inputs_before |-> Len(f.input_points),
                 progress_checked |-> IF cmd.empty THEN f.phase_progress
                                      ELSE checked.phase_progress,
                 guidance |-> r.guidance]]

\* ========================================================= LLMInterface
\* LLMInterface.__init__: the model in use and the statistics; total_tokens
\* counts the responses whose usage was added, timed the additions to
\* total_time
NewLLM ==
  [ current_model |-> "primary",
    call_count    |-> 0,
    error_count   |-> 0,
    total_tokens  |-> 0,
    timed         |-> 0 ]

\* What client.chat.completions.create and the reading of its response can
\* do: a response with text and usage, a response with text and no usage,
\* an exception raised by the request, a response with usage whose
\* choices[0].message.content cannot be read.
ApiOutcomes == {"content", "content_no_usage", "raise", "no_choices"}

\* the text a model's response carries
Content(model) == IF model = "primary" THEN "primary_text" ELSE "backup_text"

\* the statistics after a request that succeeded (lines 192-203)
RequestSucceeded(l, out) ==
  [l EXCEPT !.timed = @ + 1,
            !.total_tokens = IF out = "content" THEN @ + 1 ELSE @]

\* the handler of a failed request without its error_count += 1
RequestFailed_uncounted(l, out) ==
  [l EXCEPT !.timed = @ + (IF out = "no_choices" THEN 2 ELSE 1),
            !.total_tokens = IF out = "no_choices" THEN @ + 1 ELSE @]

\* the statistics after a request that failed (lines 251-256); a response
\* that could not be read had its time and usage added already
RequestFailed(l, out) ==
  [l EXCEPT !.timed = @ + (IF out = "no_choices" THEN 2 ELSE 1),
            !.total_tokens = IF out = "no_choices" THEN @ + 1 ELSE @,
            !.error_count = @ + 1]

\* the retry that keeps the model in use
SwitchToBackup_stay(l) == l

\* self.current_model = self.backup_model
SwitchToBackup(l) == [l EXCEPT !.current_model = "backup"]

\* LLMInterface.chat_completion.  api: what the requests of this call do,
\* in order.  The interface afterwards, the value returned (None for None)
\* and the requests made: the model asked and what came of it.
RECURSIVE chat_completion(_, _, _)
chat_completion(l, use_backup_on_failure, api) ==
  LET l1 == [l EXCEPT !.call_count = @ + 1]
      out == Head(api)
      req == [model |-> l1.current_model, outcome |-> out]
  IN IF out \in {"content", "content_no_usage"}
     THEN [llm |-> RequestSucceeded(l1, out),
           result |-> Content(l1.current_model),
           requests |-> <<req>>]
     ELSE LET l2 == RequestFailed(l1, out)
          IN IF use_backup_on_failure /\ l2.current_model # "backup"
             THEN LET r == chat_completion(SwitchToBackup(l2), FALSE,
                                           Tail(api))
                  IN [r EXCEPT !.requests = <<req>> \o @]
             ELSE [llm |-> l2, result |-> None, requests |-> <<req>>]

\* a reset that leaves the model in use as it is
reset_model_keep(l) == l

\* LLMInterface.reset_model
reset_model(l) == [l EXCEPT !.current_model = "primary"]

\* no chat_completion call yet
NoLLMCall ==
  [called |-> FALSE, use_backup_on_failure |-> FALSE, before |-> NewLLM,
   requests |-> <<>>, result |-> None, total_requests |-> 0,
   total_failures |-> 0]

\* ============================================================= Agent.run
max_browser_retries == 3
max_iterations == 15

\* Agent.run before it is called.  launches counts the browser launches,
\* backoffs the pauses before a retry, advisory the requests made to the
\* LLM without a browser, format_reminders the messages appended for a
\* response without commands, requests the calls of _get_llm_response made
\* by the iterations of the main loop.
NewSession ==
  [ pc |-> "idle", retry_count |-> 0, iteration |-> 0, launches |-> 0,
    backoffs |-> 0, advisory |-> 0, format_reminders |-> 0,
    returned |-> None, requests |-> 0 ]

\* the except branch of run that pauses and goes round again after the
\* last failure as well
SessionFailed_retry_on_last(s) ==
  LET n == s.retry_count + 1
  IN IF n <= max_browser_retries
     THEN [s EXCEPT !.retry_count = n, !.backoffs = @ + 1, !.pc = "while"]
     ELSE [s EXCEPT !.retry_count = n, !.advisory = @ + 1, !.pc = "done",
                    !.returned = "advisory"]

\* The except branch of run: the failure is counted; below the limit run
\* sleeps and goes round the while loop, at the limit it asks the LLM for
\* advice and returns.
SessionFailed(s) ==
  LET n == s.retry_count + 1
  IN IF n < max_browser_retries
     THEN [s EXCEPT !.retry_count = n, !.backoffs = @ + 1, !.pc = "while"]
     ELSE [s EXCEPT !.retry_count = n, !.advisory = @ + 1, !.pc = "done",
                    !.returned = "advisory"]

\* ================================================= Agent._parse_commands
\* the list command_prefixes of _parse_commands, in its order
command_prefixes ==
  << "GOTO", "CLICK", "TYPE", "ENTER", "SCREENSHOT", "SCROLLDOWN",
     "SCROLLUP", "WAIT", "THINK", "BACK", "REFRESH" >>

\* A line of a response, stripped.  role: a speaker prefix before the rest
\* ("AI", "human", "system", "other", or "" for none); letters: the run of
\* word characters the rest begins with, spelled in upper case; casing: how
\* the line spells it; colon: whether a colon follows that run directly;
\* words: the number of words after it.  The empty line has no letters.
Line(role, letters, casing, colon, words) ==
  [role |-> role, letters |-> letters, casing |-> casing, colon |-> colon,
   words |-> words]

BlankLine == Line("", "", "upper", FALSE, 0)

\* the two re.sub calls: a leading "AI:", "human:" or "system:" is removed
CleanLine(line) ==
  IF line.role \in {"AI", "human", "system"}
  THEN [line EXCEPT !.role = ""]
  ELSE line

\* re.match(rf'^{prefix}\b(.*)$', line, re.IGNORECASE)
PrefixMatches(prefix, line) ==
  line.role = "" /\ line.letters = prefix

\* the inner for loop from the i-th prefix on: the command the line gives,
\* with the prefix in upper case and the rest of the line, or nothing
RECURSIVE CommandOfLine(_, _)
CommandOfLine(line, i) ==
  IF i > Len(command_prefixes) THEN <<>>
  ELSE IF PrefixMatches(command_prefixes[i], line)
  THEN << [verb |-> command_prefixes[i], casing |-> "upper",
           colon |-> line.colon, words |-> line.words] >>
  ELSE CommandOfLine(line, i + 1)

\* Agent._parse_commands
RECURSIVE _parse_commands(_)
_parse_commands(text) ==
  IF text = <<>> THEN <<>>
  ELSE LET line == CleanLine(Head(text))
       IN (IF line = BlankLine THEN <<>> ELSE CommandOfLine(line, 1))
            \o _parse_commands(Tail(text))

\* no call of _parse_commands on its own yet; llm_failed: the text parsed
\* is the reply get_chat_response made up for a request that failed
NoParse ==
  [called |-> FALSE, text |-> <<>>, commands |-> <<>>, llm_failed |-> FALSE]

\* ==================================== LLMInterface.get_chat_response
\* "SCREENSHOT\nTHINK API..." returned for an empty content (line 417)
CannedEmpty ==
  << Line("", "SCREENSHOT", "upper", FALSE, 0),
     Line("", "THINK", "upper", FALSE, 1) >>

\* "SCREENSHOT\nTHINK LLM...: {e}" returned by the except branch (line 431)
CannedError ==
  << Line("", "SCREENSHOT", "upper", FALSE, 0),
     Line("", "THINK", "upper", FALSE, 2) >>

\* get_chat_response handing on whatever chat_completion returned
get_chat_response_bare(l, api, raises, text) ==
  IF raises
  THEN [llm |-> l, reply |-> <<>>, failed |-> TRUE, called |-> FALSE,
        requests |-> <<>>, result |-> None]
  ELSE LET r == chat_completion(l, TRUE, api)
       IN [llm |-> r.llm,
           reply |-> IF r.result = None THEN <<>> ELSE text,
           failed |-> r.result = None \/ text = <<>>,
           called |-> TRUE, requests |-> r.requests, result |-> r.result]

\* LLMInterface.get_chat_response.  raises: something raises before the
\* request is made; api: what the requests do; text: the lines of the
\* content when a request succeeds (<<>>: an empty content).  The
\* interface afterwards, the reply returned, and whether it is a made-up
\* one.
get_chat_response(l, api, raises, text) ==
  IF raises
  THEN [llm |-> l, reply |-> CannedError, failed |-> TRUE, called |-> FALSE,
        requests |-> <<>>, result |-> None]
  ELSE LET r == chat_completion(l, TRUE, api)
           empty == r.result = None \/ text = <<>>
       IN [llm |-> r.llm,
           reply |-> IF empty THEN CannedEmpty ELSE text,
           failed |-> empty,
           called |-> TRUE, requests |-> r.requests, result |-> r.result]

\* ================================================================ state
DefaultMaxHistory == 10

\* How an Agent is constructed: the defaults (auto_recovery, threshold 3),
\* the construction of run_automated_test (threshold 2), recovery switched
\* off, a threshold above every level, and the defaults without an API key.
Config(ar, erl, key) ==
  [auto_recovery |-> ar, error_recovery_level |-> erl, api_key |-> key]

Configs ==
  { Config(TRUE, 3, TRUE), Config(TRUE, 2, TRUE), Config(FALSE, 3, TRUE),
    Config(TRUE, 4, TRUE), Config(TRUE, 3, FALSE) }

VARIABLES
  state_tracker,         \* Agent.state_tracker, a BrowserStateTracker
  calls,                 \* the tracker method calls made so far (SpecTracker)
  auto_recovery,         \* Agent.auto_recovery
  error_recovery_level,  \* Agent.error_recovery_level
  api_key,               \* whether SILICONFLOW_API_KEY is set
  page_url,              \* Agent.page.url
  commands,              \* the batch given to _execute_commands, as far as
                         \* the loop has read it (all of it once the loop is left)
  idx,                   \* number of commands of the batch the loop has run
  batch_len,             \* len(commands) of the batch being run
  pc,                    \* "loop" inside the for loop, "raised" once an
                         \* exception has left it, else "idle"
  command_results,       \* the outcome log: [cmd |-> index, text |-> entry]
  trace,                 \* what the handler of the last command did
  steps,                 \* commands run so far in this behaviour
  messages,              \* what this call of _execute_commands has appended
                         \* to Agent.messages
  framework,             \* Agent.test_framework, a TestFramework
  fw_trace,              \* what the last process_command call did
  probe,                 \* SQLInjectionTester._test_input_point under way
  detected,              \* the last call of _detect_page_error on its own
  parsed,                \* the last call of _parse_commands on its own
  session,               \* Agent.run: its position, retry_count and what it did
  llm                    \* Agent.llm, an LLMInterface, and its last call

vars == <<state_tracker, calls, auto_recovery, error_recovery_level, api_key,
          page_url, commands, batch_len, idx, pc, command_results, trace,
          steps, messages, framework, fw_trace, probe, detected, parsed, session, llm>>

\* the variables the tracker's methods leave alone
agent_vars == <<auto_recovery, error_recovery_level, api_key, page_url,
                commands, batch_len, idx, pc, command_results, trace,
                steps, messages, framework, fw_trace, probe, detected, parsed, session, llm>>

\* the variables of the batch loop and of the tracker
loop_vars == <<state_tracker, calls, auto_recovery, error_recovery_level,
               api_key, page_url, commands, batch_len, idx, pc,
               command_results, trace, steps, messages>>

\* trace of no process_command call
NoFwTrace ==
  [called |-> FALSE, cmd |-> EmptyCmd, phase_before |-> PHASE_RECON,
   progress_before |-> 0, inputs_before |-> 0, progress_checked |-> 0,
   guidance |-> None]

\* SQLInjectionTester before _test_input_point is called: no request made,
\* self.column_count = 0
NewProbe ==
  [pc |-> "idle", point |-> 0, log |-> <<>>, technique |-> None,
   is_injectable |-> FALSE, column_count |-> 0, obs |-> [tech |-> "none"],
   test |-> NewTest]

\* no call of _detect_page_error on its own yet
NoDetect ==
  [called |-> FALSE, sig |-> Sig(0, FALSE, FALSE, FALSE, FALSE, FALSE, FALSE),
   result |-> [has_error |-> FALSE, level |-> 0]]

\* the parts of the state outside the component a specification drives
RestInit ==
  /\ messages = <<>>
  /\ framework = NewFramework
  /\ fw_trace = NoFwTrace
  /\ probe = NewProbe
  /\ detected = NoDetect
  /\ parsed = NoParse
  /\ session = NewSession
  /\ llm = [state |-> NewLLM, last |-> NoLLMCall]

\* trace of a command that classifies no page
NoTrace ==
  [verb |-> "", classified |-> FALSE, is_normal |-> "None",
   llm_failed |-> FALSE, rule_level |-> 0, detect_called |-> FALSE,
   handler_called |-> FALSE, error_level |-> 0, errors_after_mark |-> 0,
   nav |-> {}, recovered |-> FALSE, stable_url |-> None]

\* BrowserStateTracker.__init__ on its own, with any max_history
InitTracker ==
  /\ \E mh \in 1..MaxHistory, ar \in BOOLEAN :
        /\ state_tracker = NewTracker(mh, ar)
        /\ auto_recovery = ar
  /\ calls = <<>>
  /\ error_recovery_level = 3
  /\ api_key = TRUE
  /\ page_url = "about:blank"
  /\ commands = <<>>
  /\ batch_len = 0
  /\ idx = 0
  /\ pc = "idle"
  /\ command_results = <<>>
  /\ trace = NoTrace
  /\ steps = 0
  /\ RestInit

\* Agent.__init__ and the fresh page of Agent.run
Init ==
  /\ \E c \in Configs :
        /\ auto_recovery = c.auto_recovery
        /\ error_recovery_level = c.error_recovery_level
        /\ api_key = c.api_key
        /\ state_tracker = NewTracker(DefaultMaxHistory, c.auto_recovery)
  /\ calls = <<>>
  /\ page_url = "about:blank"
  /\ commands = <<>>
  /\ batch_len = 0
  /\ idx = 0
  /\ pc = "idle"
  /\ command_results = <<>>
  /\ trace = NoTrace
  /\ steps = 0
  /\ RestInit

\* ------------------------------------------- the tracker's public methods
RecordUrl ==
  /\ Len(calls) < MaxCalls
  /\ \E url \in ArgUrls, is_stable \in BOOLEAN :
       /\ state_tracker' = record_url(state_tracker, url, is_stable)
       /\ calls' = Append(calls, [op |-> "record_url", url |-> url,
                                  is_stable |-> is_stable])
  /\ UNCHANGED agent_vars

MarkError ==
  /\ Len(calls) < MaxCalls
  /\ \E url \in ArgUrls :
       /\ state_tracker' = mark_error(state_tracker, url)
       /\ calls' = Append(calls, [op |-> "mark_error", url |-> url,
                                  is_stable |-> FALSE])
  /\ UNCHANGED agent_vars

Clear ==
  /\ Len(calls) < MaxCalls
  /\ state_tracker' = clear(state_tracker)
  /\ calls' = Append(calls, [op |-> "clear", url |-> "", is_stable |-> FALSE])
  /\ UNCHANGED agent_vars

NextTracker == RecordUrl \/ MarkError \/ Clear

SpecTracker == InitTracker /\ [][NextTracker]_vars

\* ============================================== Agent._execute_commands
Cmd(verb, arg) == [verb |-> verb, arg |-> arg]

\* the commands of a batch that a break leaves unread: n commands that
\* are, or are not, a SCREENSHOT
RestOfBatch(n) == [1..n -> {Cmd("THINK", ""), Cmd("SCREENSHOT", "")}]

\* how a recovery navigation can go: page.goto succeeds, or it raises (or
\* there is no recovery URL) and page.go_back raises ("fail") or lands on
\* some page
BackOutcomes == RealUrls \cup {"fail"}
RecoveryOutcomes ==
  {[goto_ok |-> TRUE, back |-> "fail"]}
    \cup {[goto_ok |-> FALSE, back |-> b] : b \in BackOutcomes}

\* entries texts appended to command_results while handling command i
Log(i, texts) == [k \in 1..Len(texts) |-> [cmd |-> i, text |-> texts[k]]]

\* The page check after a successful GOTO / CLICK: advisory verdict, rule
\* fallback, then the recovery handler on an anomaly or a stable record of
\* stable_url otherwise.
CheckPageState(t, purl, stable_url, sig, reply, goto_ok, back) ==
  LET is_normal == _ask_llm_about_page_state(api_key, reply, sig)
      c == ClassifyPage(is_normal, sig)
      h == _handle_error_with_recovery(t, purl, c.level, auto_recovery,
                                      error_recovery_level, goto_ok,
                                      back # "fail", back)
      tr == [NoTrace EXCEPT
               !.classified = TRUE,
               !.is_normal = is_normal,
               !.llm_failed = ~api_key \/ reply \in LLMFailures,
               !.rule_level = _detect_page_error(sig).level,
               !.detect_called = c.detect_called]
  IN IF c.anomaly
     THEN [tracker |-> h.tracker, page_url |-> h.page_url,
           results |-> h.results, recovered |-> h.recovered,
           trace |-> [tr EXCEPT !.handler_called = TRUE,
                                !.error_level = c.level,
                                !.errors_after_mark =
                                    h.tracker.consecutive_errors,
                                !.nav = h.nav,
                                !.recovered = h.recovered]]
     ELSE [tracker |-> record_url(t, stable_url, TRUE), page_url |-> purl,
           results |-> <<>>, recovered |-> FALSE,
           trace |-> [tr EXCEPT !.stable_url = stable_url]]

\* every way the page check can end for the page the browser is at
PageChecks(t, purl, stable_url) ==
  { CheckPageState(t, purl, stable_url, sig, reply, e.goto_ok, e.back) :
      sig \in PageSignals, reply \in LLMReplies, e \in RecoveryOutcomes }

\* a message appended to Agent.messages
Msg(role, kind, results) == [role |-> role, kind |-> kind, results |-> results]

\* The end of _execute_commands: unless a command of the batch is a
\* SCREENSHOT, one user message with the outcome log is appended.
Epilogue(cmds, results) ==
  IF \E i \in 1..Len(cmds) : cmds[i].verb = "SCREENSHOT"
  THEN <<>>
  ELSE << Msg("user", "results", results) >>

\* The end of one iteration of the for loop.  The loop goes on with the
\* next command, or the function returns: because the batch is exhausted, or
\* because of the break, which leaves the rest of the batch unread.
ProceedWith(cmd, t, purl, texts, recovered, tr, msgs, fw) ==
  /\ state_tracker' = t
  /\ page_url' = purl
  /\ command_results' = command_results \o Log(idx + 1, texts)
  /\ trace' = [tr EXCEPT !.verb = cmd.verb]
  /\ idx' = idx + 1
  /\ steps' = steps + 1
  /\ IF LoopContinues(recovered)
     THEN /\ pc' = IF idx + 1 < batch_len THEN "loop" ELSE "idle"
          /\ commands' = Append(commands, cmd)
     ELSE /\ pc' = "idle"
          /\ \E rest \in RestOfBatch(batch_len - idx - 1) :
               commands' = Append(commands, cmd) \o rest
  /\ messages' = messages \o msgs
                  \o (IF pc' = "idle" THEN Epilogue(commands', command_results')
                      ELSE <<>>)
  /\ framework' = fw.framework
  /\ fw_trace' = fw.trace
  /\ UNCHANGED <<calls, auto_recovery, error_recovery_level, api_key,
                 batch_len, probe, detected, parsed, session, llm>>

\* an iteration that appends nothing to the messages itself and does not
\* call the test framework
Proceed(cmd, t, purl, texts, recovered, tr) ==
  ProceedWith(cmd, t, purl, texts, recovered, tr, <<>>,
              [framework |-> framework, trace |-> fw_trace])

\* run() hands a non-empty batch to _execute_commands
StartBatch ==
  /\ pc = "idle"
  /\ \E n \in 1..(MaxSteps - steps) : batch_len' = n
  /\ pc' = "loop"
  /\ commands' = <<>>
  /\ idx' = 0
  /\ command_results' = <<>>
  /\ trace' = NoTrace
  /\ messages' = <<>>
  /\ UNCHANGED <<state_tracker, calls, auto_recovery, error_recovery_level,
                 api_key, page_url, steps, framework, fw_trace, probe,
                 detected, parsed, session, llm>>

\* GOTO url, page.goto raises
GotoFails(url) ==
    LET at == page_url t0 == IF page_url # "" /\ page_url # "about:blank"
              THEN record_url(state_tracker, page_url, TRUE)
              ELSE state_tracker
        t1 == IF at # "" THEN mark_error(t0, at) ELSE t0
    IN Proceed(Cmd("GOTO", url), t1, at,
               <<"goto_failed", "recovery_message">>
                 \o (IF get_recovery_url(t1) # None
                     THEN <<"suggest_goto">> ELSE <<>>),
               FALSE, NoTrace)

\* GOTO url, page.goto succeeds and the browser is at url
GotoLands(url) ==
  LET t0 == IF page_url # "" /\ page_url # "about:blank"
            THEN record_url(state_tracker, page_url, TRUE)
            ELSE state_tracker
  IN \E r \in PageChecks(t0, url, url) :
       IF r.recovered
       THEN Proceed(Cmd("GOTO", url), r.tracker, r.page_url,
                    <<"goto_ok">> \o r.results, r.recovered, r.trace)
       ELSE \E elapsed \in BOOLEAN :
              LET fw == FrameworkCall(framework, FCmd("GOTO", url, 1, {}),
                                      elapsed)
              IN ProceedWith(Cmd("GOTO", url), r.tracker, r.page_url,
                             <<"goto_ok">> \o r.results, r.recovered,
                             r.trace,
                             IF fw.trace.guidance # None
                             THEN << Msg("system", fw.trace.guidance, <<>>) >>
                             ELSE <<>>,
                             fw)

ExecGoto ==
  /\ pc = "loop"
  /\ \E url \in RealUrls : GotoFails(url) \/ GotoLands(url)

\* CLICK selector: the click fails, and a fallback selector may succeed
\* (the page it leads to is not checked)
ClickFails ==
  \/ \E landing \in RealUrls :
       Proceed(Cmd("CLICK", "sel"), state_tracker, landing,
               <<"click_failed", "fallback_ok">>, FALSE, NoTrace)
  \/ Proceed(Cmd("CLICK", "sel"), state_tracker, page_url,
             <<"click_failed", "recovery_message">>, FALSE, NoTrace)

\* CLICK selector: the click succeeds and the browser is at landing
ClickLands ==
  \E landing \in RealUrls :
    \E r \in PageChecks(state_tracker, landing, landing) :
      Proceed(Cmd("CLICK", "sel"), r.tracker, r.page_url,
              <<"click_ok">> \o r.results, r.recovered, r.trace)

ExecClick ==
  /\ pc = "loop"
  /\ (ClickFails \/ ClickLands)

\* SCREENSHOT: the rule evaluator runs on the current page; an error is
\* marked (no recovery), a clean page is recorded as stable
ExecScreenshot ==
  /\ pc = "loop"
  /\ \E sig \in PageSignals :
       LET rule == _detect_page_error(sig)
           hint == get_suggestion(state_tracker)
           tr == [NoTrace EXCEPT !.rule_level = rule.level,
                                 !.detect_called = TRUE]
       IN IF rule.has_error
          THEN ProceedWith(Cmd("SCREENSHOT", ""),
                       IF page_url # "" THEN mark_error(state_tracker, page_url)
                       ELSE state_tracker,
                       page_url,
                       <<"error_detected">>
                         \o (IF hint # "" THEN <<"suggestion">> ELSE <<>>)
                         \o <<"screenshot_done">>,
                       FALSE, tr,
                       << Msg("user", "page_analysis", <<>>),
                          Msg("user", "page_content_warning", <<>>) >>,
                       [framework |-> framework, trace |-> fw_trace])
          ELSE ProceedWith(Cmd("SCREENSHOT", ""),
                       record_url(state_tracker, page_url, TRUE), page_url,
                       <<"screenshot_done">>, FALSE, tr,
                       << Msg("user", "page_analysis", <<>>),
                          Msg("user", "page_content", <<>>) >>,
                       [framework |-> framework, trace |-> fw_trace])

\* BACK: page.go_back succeeds (the error flag is cleared) or raises
ExecBack ==
  /\ pc = "loop"
  /\ \/ \E landing \in RealUrls :
          Proceed(Cmd("BACK", ""),
                  [state_tracker EXCEPT !.has_error = FALSE], landing,
                  <<"back_ok">>, FALSE, NoTrace)
     \/ Proceed(Cmd("BACK", ""), state_tracker, page_url,
                <<"back_failed">>
                  \o (IF get_recovery_url(state_tracker) # None
                      THEN <<"suggest_goto">> ELSE <<>>),
                FALSE, NoTrace)

\* THINK text: logged only
ExecThink ==
  /\ pc = "loop"
  /\ Proceed(Cmd("THINK", ""), state_tracker, page_url, <<"think">>,
             FALSE, NoTrace)

Next ==
  \/ StartBatch
  \/ ExecGoto
  \/ ExecClick
  \/ ExecScreenshot
  \/ ExecBack
  \/ ExecThink

Spec == Init /\ [][Next]_vars

\* ------------------------------- the handlers that read an argument list
\* What a handler body did: the entries it appended and whether an
\* exception left it.
Handled(texts, raised) == [texts |-> texts, raised |-> raised]

\* an except branch that appends nothing and lets the exception go on
OuterExcept_reraise(h) == [texts |-> h.texts, escaped |-> h.raised]

\* The except branch around every command of the loop (lines 1254-1257):
\* the exception is logged as an entry and the loop goes on.
OuterExcept(h) ==
  [texts |-> h.texts \o (IF h.raised THEN <<"command_error">> ELSE <<>>),
   escaped |-> FALSE]

\* The argument of a command as the loop reads it: "" for a verb on its
\* own, "one" for one word, "two" for two words or more, "num" for an
\* integer literal, "word" for one word that is no integer literal.
\* the last else branch: no handler takes a verb without its argument
UnknownCommand == Handled(<<"unknown_command">>, FALSE)

\* TYPE: parts = rest.split(" ", 1); fill, then page.type, may raise
TypeHandler(arg, fill_ok, type_ok) ==
  IF arg = "" THEN UnknownCommand
  ELSE IF arg = "one" THEN Handled(<<"type_format_error">>, FALSE)
  ELSE IF fill_ok THEN Handled(<<"type_ok">>, FALSE)
  ELSE IF type_ok THEN Handled(<<"type_failed", "type_fallback_ok">>, FALSE)
  ELSE Handled(<<"type_failed", "type_fallback_failed",
                 "recovery_message">>, FALSE)

\* SELECT: the option is clicked or select_option is used ("ok"), else the
\* value is set by script: "js" set it, "no_element" found nothing,
\* "fail" raised
SelectHandler(arg, how) ==
  IF arg = "" THEN UnknownCommand
  ELSE IF arg = "one" THEN Handled(<<"select_format_error">>, FALSE)
  ELSE IF how = "ok" THEN Handled(<<"select_ok">>, FALSE)
  ELSE IF how = "js" THEN Handled(<<"select_failed", "select_js_ok">>, FALSE)
  ELSE IF how = "no_element"
  THEN Handled(<<"select_failed", "recovery_message">>, FALSE)
  ELSE Handled(<<"select_failed", "select_all_failed">>, FALSE)

\* SCROLLDOWN, SCROLLUP, WAIT: int(argument) raises on anything but an
\* integer literal, and the page operation may raise
NumberHandler(verb, arg, op_ok) ==
  IF arg = "" THEN UnknownCommand
  ELSE IF arg # "num" THEN Handled(<<>>, TRUE)
  ELSE IF op_ok THEN Handled(<< IF verb = "WAIT" THEN "wait_done"
                                ELSE "scroll_ok" >>, FALSE)
  ELSE Handled(<<>>, TRUE)

\* ENTER, REFRESH: compared with the whole command; the page operation may
\* raise
BareHandler(verb, arg, op_ok) ==
  IF arg # "" THEN UnknownCommand
  ELSE IF op_ok THEN Handled(<< IF verb = "ENTER" THEN "enter_ok"
                                ELSE "refresh_ok" >>, FALSE)
  ELSE Handled(<<>>, TRUE)

\* an exception leaves _execute_commands: nothing more is run or appended
Escape(cmd, texts) ==
  /\ pc' = "raised"
  /\ \E rest \in RestOfBatch(batch_len - idx - 1) :
       commands' = Append(commands, cmd) \o rest
  /\ command_results' = command_results \o Log(idx + 1, texts)
  /\ trace' = [NoTrace EXCEPT !.verb = cmd.verb]
  /\ idx' = idx + 1
  /\ steps' = steps + 1
  /\ UNCHANGED <<state_tracker, calls, auto_recovery, error_recovery_level,
                 api_key, page_url, batch_len, messages, framework,
                 fw_trace, probe, detected, parsed, session, llm>>

\* one command of the loop whose handler h touches neither the tracker nor
\* the test framework; the browser is at purl afterwards
RunHandler(cmd, h, purl) ==
  LET o == OuterExcept(h)
  IN IF o.escaped
     THEN Escape(cmd, o.texts)
     ELSE Proceed(cmd, state_tracker, purl, o.texts, FALSE, NoTrace)

ExecType ==
  /\ pc = "loop"
  /\ \E arg \in {"", "one", "two"}, fill_ok \in BOOLEAN, type_ok \in BOOLEAN :
       /\ (arg # "two" => fill_ok /\ type_ok)
       /\ (fill_ok => type_ok)
       /\ RunHandler(Cmd("TYPE", arg), TypeHandler(arg, fill_ok, type_ok),
                     page_url)

ExecSelect ==
  /\ pc = "loop"
  /\ \E arg \in {"", "one", "two"}, how \in {"ok", "js", "no_element", "fail"} :
       /\ (arg # "two" => how = "ok")
       /\ RunHandler(Cmd("SELECT", arg), SelectHandler(arg, how), page_url)

ExecNumber ==
  /\ pc = "loop"
  /\ \E verb \in {"SCROLLDOWN", "SCROLLUP", "WAIT"},
        arg \in {"", "num", "word"}, op_ok \in BOOLEAN :
       /\ ((arg # "num" \/ verb = "WAIT") => op_ok)
       /\ RunHandler(Cmd(verb, arg), NumberHandler(verb, arg, op_ok),
                     page_url)

\* ENTER may submit a form, REFRESH reloads the page
ExecBare ==
  /\ pc = "loop"
  /\ \E verb \in {"ENTER", "REFRESH"}, arg \in {"", "one"},
        op_ok \in BOOLEAN :
       /\ (arg # "" => op_ok)
       /\ \E purl \in (IF verb = "ENTER" /\ arg = "" /\ op_ok
                       THEN RealUrls \cup {page_url} ELSE {page_url}) :
            RunHandler(Cmd(verb, arg), BareHandler(verb, arg, op_ok), purl)

\* ====================================== the other components on their own
\* an agent constructed with the defaults, nothing run yet
InitDefault ==
  /\ auto_recovery = TRUE
  /\ error_recovery_level = 3
  /\ api_key = TRUE
  /\ state_tracker = NewTracker(DefaultMaxHistory, TRUE)
  /\ calls = <<>>
  /\ page_url = "about:blank"
  /\ commands = <<>>
  /\ batch_len = 0
  /\ idx = 0
  /\ pc = "idle"
  /\ command_results = <<>>
  /\ trace = NoTrace
  /\ steps = 0
  /\ RestInit

\* ------------------------------- batches of argument-reading commands
NextArgs ==
  \/ StartBatch
  \/ ExecType
  \/ ExecSelect
  \/ ExecNumber
  \/ ExecBare
  \/ ExecThink

\* batches of the commands that read their argument list themselves
SpecArgs == InitDefault /\ [][NextArgs]_vars

\* ----------------------------------------- TestFramework.process_command
\* the command strings process_command is called with
FrameworkCommands ==
  { EmptyCmd,
    FCmd("THINK", "note", 1, {}),
    FCmd("THINK", "note", 2, {"captcha"}),
    FCmd("THINK", "note", 2, {"csrf"}),
    FCmd("THINK", "note", 2, {"yzm", "csrf", "long"}),
    FCmd("TYPE", "s1", 2, {}),
    FCmd("TYPE", "s2", 2, {"yzm"}),
    FCmd("TYPE", "s1", 2, {"quote"}),
    FCmd("GOTO", "u1", 1, {}),
    FCmd("CLICK", "sel", 1, {"login"}),
    FCmd("SCREENSHOT", "", 0, {}) }

\* the interval matters to a call only at a multiple of ten commands, after
\* a first periodic guidance
Elapsed(f) ==
  IF f.guided /\ (f.command_counter + 1) % 10 = 0 THEN BOOLEAN ELSE {TRUE}

ProcessCommand ==
  /\ framework.command_counter < MaxCommands
  /\ \E cmd \in FrameworkCommands, elapsed \in Elapsed(framework) :
       LET r == FrameworkCall(framework, cmd, elapsed)
       IN /\ framework' = r.framework
          /\ fw_trace' = r.trace
  /\ UNCHANGED <<loop_vars, probe, detected, parsed, session, llm>>

NextFramework == ProcessCommand

SpecFramework == InitDefault /\ [][NextFramework]_vars

\* ------------------------------- SQLInjectionTester._test_input_point
\* test() calls _test_input_point for the next input point
StartInputPoint ==
  /\ probe.pc \in {"idle", "done"}
  /\ probe.point < MaxPoints
  /\ probe' = [probe EXCEPT !.pc = "boolean", !.point = @ + 1,
                            !.log = <<>>, !.technique = None,
                            !.is_injectable = FALSE,
                            !.obs = [tech |-> "none"]]
  /\ UNCHANGED <<loop_vars, framework, fw_trace, detected, parsed, session, llm>>

\* the step of _test_input_point for a technique with result r
Technique(name, r, next, obs) ==
  /\ probe' = [probe EXCEPT
                 !.pc = AfterTechnique(r.vulnerable, next),
                 !.log = @ \o r.events,
                 !.technique = IF r.vulnerable THEN name ELSE @,
                 !.is_injectable = r.vulnerable,
                 !.column_count = IF name = "union" /\ r.vulnerable
                                  THEN r.columns ELSE @,
                 !.obs = obs]
  /\ UNCHANGED <<loop_vars, framework, fw_trace, detected, parsed, session, llm>>

\* the texts a true/false payload pair produces
ResponsePairs == {[t |-> t, f |-> f] : t \in Responses, f \in Responses}

TestBoolean ==
  /\ probe.pc = "boolean"
  /\ \E p1 \in ResponsePairs :
       \E p2 \in IF BooleanOracle(p1.t, p1.f) THEN {p1} ELSE ResponsePairs :
         LET r == _test_boolean_injection(<<p1, p2>>)
         IN Technique("boolean", r, "error",
                      [tech |-> "boolean", pair |-> <<p1, p2>>[r.last]])

TestError ==
  /\ probe.pc = "error"
  /\ \E hits \in SUBSET (1..ErrorPayloads) :
       LET r == _test_error_injection(hits)
       IN Technique("error", r, "union",
                    [tech |-> "error", payload |-> r.payload])

TestUnion ==
  /\ probe.pc = "union"
  /\ \E k \in 1..(max_columns + 1), bad \in SUBSET (1..OrderByBases),
        echo \in BOOLEAN :
       LET env == [k |-> k, bad |-> bad, echo |-> echo]
           r == _test_union_injection(env)
       IN Technique("union", r, "done",
                    [tech |-> "union", first_fail |-> r.first_fail,
                     column_count |-> r.column_count, uniform |-> bad = {},
                     k |-> k])

NextProbe == StartInputPoint \/ TestBoolean \/ TestError \/ TestUnion

SpecProbe == InitDefault /\ [][NextProbe]_vars

\* ------------------------------------------- SQLInjectionTester.test
\* the pages an input point is probed on: a true/false pair that differs
\* by more than 50 characters, and one with equal texts
TestPairs ==
  { [t |-> Resp(151, FALSE, FALSE), f |-> Resp(100, FALSE, FALSE)],
    [t |-> Resp(100, FALSE, FALSE), f |-> Resp(100, FALSE, FALSE)] }

\* the answers to the ORDER BY and UNION probes on those pages
TestUnionEnvs ==
  { [k |-> k, bad |-> {}, echo |-> echo] :
      k \in {3, 4, max_columns + 1}, echo \in BOOLEAN }

\* a caller calls test() on the tester: no page, no input points, or the
\* loop over the input points begins
TestStarts ==
  /\ probe.test.pc \in {"idle", "returned"}
  /\ probe.test.run < MaxRuns
  /\ \E page \in BOOLEAN, n \in 0..MaxPoints :
       probe' = [probe EXCEPT
         !.test = [@ EXCEPT
            !.run = @ + 1,
            !.point = 0,
            !.n_points = IF page THEN n ELSE 0,
            !.vulnerable_inputs = 0,
            !.last = NoPoint,
            !.status = IF ~page THEN "error"
                       ELSE IF n = 0 THEN "no_input_points"
                       ELSE "running",
            !.pc = IF page /\ n > 0 THEN "loop" ELSE "returned"]]
  /\ UNCHANGED <<loop_vars, framework, fw_trace, detected, parsed, session, llm>>

\* one iteration of test()'s loop over the input points: an input of an
\* unsuitable type is skipped; otherwise _test_input_point runs, a finding
\* is recorded and, when self.column_count > 0, the extraction is run
TestInputPoint ==
  /\ probe.test.pc = "loop"
  /\ probe.test.point < probe.test.n_points
  /\ \/ probe' = [probe EXCEPT !.test.point = @ + 1,
                                !.test.last = NoPoint]
     \/ \E pair \in TestPairs, hits \in {{}, {1}}, env \in TestUnionEnvs :
          LET here == <<probe.test.run, probe.test.point + 1>>
              r == _test_input_point(probe.column_count, <<pair, pair>>,
                                     hits, env)
              from == IF r.technique = "union" THEN here
                      ELSE probe.test.column_from
              t1 == [probe.test EXCEPT !.point = @ + 1,
                                       !.column_from = from]
              t2 == IF r.is_injectable
                    THEN [record_vulnerability(t1, here) EXCEPT
                            !.vulnerable_inputs = @ + 1]
                    ELSE t1
              extracted == r.is_injectable /\ ShouldExtract(r.column_count)
          IN probe' = [probe EXCEPT
               !.column_count = r.column_count,
               !.test = [t2 EXCEPT !.last =
                  [tested |-> TRUE, is_injectable |-> r.is_injectable,
                   technique |-> r.technique, extracted |-> extracted,
                   extract_columns |-> IF extracted THEN r.column_count
                                       ELSE 0,
                   column_from |-> IF extracted THEN from ELSE <<0, 0>>]]]
  /\ UNCHANGED <<loop_vars, framework, fw_trace, detected, parsed, session, llm>>

\* the loop is over: test() sets the final status and returns the report
TestReturns ==
  /\ probe.test.pc = "loop"
  /\ probe.test.point = probe.test.n_points
  /\ probe' = [probe EXCEPT
                 !.test.status = SummaryStatus(probe.test.vulnerable_inputs),
                 !.test.pc = "returned"]
  /\ UNCHANGED <<loop_vars, framework, fw_trace, detected, parsed, session, llm>>

NextTest == TestStarts \/ TestInputPoint \/ TestReturns

SpecTest == InitDefault /\ [][NextTest]_vars

\* -------------------------------------------- Agent._detect_page_error
\* the page signals the classifier is checked on
DetectStatuses == {0, 200, 302, 399, 400, 404, 500}
DetectSignals ==
  { Sig(st, sql, phrase, empty, js, FALSE, sql) :
      st \in DetectStatuses, sql \in BOOLEAN, phrase \in BOOLEAN,
      empty \in BOOLEAN, js \in BOOLEAN }

DetectPageError ==
  /\ \E sig \in DetectSignals :
       detected' = [called |-> TRUE, sig |-> sig,
                    result |-> _detect_page_error(sig)]
  /\ UNCHANGED <<loop_vars, framework, fw_trace, probe, parsed, session, llm>>

NextDetect == DetectPageError

SpecDetect == InitDefault /\ [][NextDetect]_vars

\* ------------------------------------------ LLMInterface.chat_completion
\* the outcomes that end in the except branch of chat_completion
FailedOutcomes == {"raise", "no_choices"}

\* how many of the requests failed
RECURSIVE Failures(_)
Failures(reqs) ==
  IF reqs = <<>> THEN 0
  ELSE (IF Head(reqs).outcome \in FailedOutcomes THEN 1 ELSE 0)
         + Failures(Tail(reqs))

\* a caller calls chat_completion; the second outcome is drawn only when a
\* second request can be made
ChatCompletion ==
  /\ llm.state.call_count < MaxRequests
  /\ \E use_backup_on_failure \in BOOLEAN, o1 \in ApiOutcomes :
       \E o2 \in IF o1 \in FailedOutcomes /\ use_backup_on_failure
                    /\ llm.state.current_model # "backup"
                 THEN ApiOutcomes ELSE {o1} :
         LET r == chat_completion(llm.state, use_backup_on_failure,
                                  <<o1, o2>>)
         IN llm' = [state |-> r.llm,
                    last |-> [called |-> TRUE,
                              use_backup_on_failure |-> use_backup_on_failure,
                              before |-> llm.state,
                              requests |-> r.requests,
                              result |-> r.result,
                              total_requests |->
                                 llm.last.total_requests + Len(r.requests),
                              total_failures |->
                                 llm.last.total_failures
                                   + Failures(r.requests)]]
  /\ UNCHANGED <<loop_vars, framework, fw_trace, probe, detected, parsed,
                 session>>

\* a caller calls reset_model, in any state of the interface
ResetModel ==
  /\ llm' = [llm EXCEPT !.state = reset_model(@), !.last.called = FALSE]
  /\ UNCHANGED <<loop_vars, framework, fw_trace, probe, detected, parsed,
                 session>>

NextLLM == ChatCompletion \/ ResetModel

SpecLLM == InitDefault /\ [][NextLLM]_vars

\* -------------------------------------------------------------- Agent.run
\* run is called
RunStarts ==
  /\ session.pc = "idle"
  /\ session' = [session EXCEPT !.pc = "while"]
  /\ UNCHANGED <<loop_vars, framework, fw_trace, probe, detected, parsed, llm>>

\* the while loop is entered: the browser is launched and the page opened,
\* or that raises; past the limit the loop is left and run returns
LaunchBrowser ==
  /\ session.pc = "while"
  /\ IF session.retry_count < max_browser_retries
     THEN LET s == [session EXCEPT !.launches = @ + 1]
          IN \/ session' = [s EXCEPT !.pc = "session", !.iteration = 0]
             \/ session' = SessionFailed(s)
     ELSE session' = [session EXCEPT !.pc = "done",
                                     !.returned = "fell_through"]
  /\ UNCHANGED <<loop_vars, framework, fw_trace, probe, detected, parsed, llm>>

\* one iteration of the main loop: the LLM is asked and the response has
\* commands, which are executed, or it has none and a reminder of the
\* format is appended, or something raises, before the LLM is asked or
\* after
Iterate ==
  /\ session.pc = "session"
  /\ session.iteration < max_iterations
  /\ \/ session' = [session EXCEPT !.iteration = @ + 1, !.requests = @ + 1]
     \/ session' = [session EXCEPT !.iteration = @ + 1, !.requests = @ + 1,
                                   !.format_reminders = @ + 1]
     \/ session' = SessionFailed(session)
     \/ session' = SessionFailed([session EXCEPT !.requests = @ + 1])
  /\ UNCHANGED <<loop_vars, framework, fw_trace, probe, detected, parsed, llm>>

\* after the last iteration the browser is closed and run returns, or the
\* closing raises
CloseBrowser ==
  /\ session.pc = "session"
  /\ session.iteration = max_iterations
  /\ \/ session' = [session EXCEPT !.pc = "done", !.returned = "completed"]
     \/ session' = SessionFailed(session)
  /\ UNCHANGED <<loop_vars, framework, fw_trace, probe, detected, parsed, llm>>

NextRun == RunStarts \/ LaunchBrowser \/ Iterate \/ CloseBrowser

SpecRun == InitDefault /\ [][NextRun]_vars

\* run is one coroutine that the event loop drives to its end
SpecRunFair == SpecRun /\ WF_vars(NextRun)

\* ------------------------------------------------- Agent._parse_commands
\* the lines a response is made of
ResponseLines ==
  { BlankLine,
    Line("", "GOTO", "upper", FALSE, 1),
    Line("", "CLICK", "lower", FALSE, 1),
    Line("", "TYPE", "mixed", FALSE, 2),
    Line("", "SELECT", "upper", FALSE, 2),
    Line("", "SELECT", "lower", FALSE, 1),
    Line("", "ENTER", "upper", FALSE, 0),
    Line("", "SCREENSHOT", "lower", FALSE, 0),
    Line("", "SCROLLDOWN", "upper", FALSE, 1),
    Line("", "SCROLLUP", "mixed", FALSE, 1),
    Line("", "WAIT", "lower", FALSE, 1),
    Line("", "THINK", "upper", FALSE, 2),
    Line("", "THINK", "lower", TRUE, 1),
    Line("", "BACK", "lower", FALSE, 0),
    Line("", "REFRESH", "upper", FALSE, 0),
    Line("", "GOTOS", "upper", FALSE, 1),
    Line("", "HELLO", "lower", FALSE, 1),
    Line("AI", "GOTO", "lower", FALSE, 1),
    Line("other", "CLICK", "upper", FALSE, 1) }

Texts == UNION {[1..n -> ResponseLines] : n \in 0..MaxLines}

\* _parse_commands is applied to a response
ParseCommands ==
  /\ ~parsed.called
  /\ \E text \in Texts :
       parsed' = [called |-> TRUE, text |-> text,
                  commands |-> _parse_commands(text), llm_failed |-> FALSE]
  /\ UNCHANGED <<loop_vars, framework, fw_trace, probe, detected, session,
                 llm>>

NextParse == ParseCommands

SpecParse == InitDefault /\ [][NextParse]_vars

\* ------------------- get_chat_response and the parse of what it returns
\* the contents a request that succeeds can carry: nothing, a blank line,
\* a command, a sentence, a prefixed command followed by a command
ReplyTexts ==
  { <<>>,
    << BlankLine >>,
    << Line("", "GOTO", "upper", FALSE, 1) >>,
    << Line("", "HELLO", "lower", FALSE, 1) >>,
    << Line("AI", "GOTO", "lower", FALSE, 1),
       Line("", "SCREENSHOT", "lower", FALSE, 0) >> }

\* the text drawn when no request succeeds
NoText == <<>>

\* _get_llm_response calls get_chat_response and run parses the reply
\* (browser_use.py:588, 341); the second outcome and the content are drawn
\* only when they are read
GetChatResponse ==
  /\ llm.state.call_count < MaxRequests
  /\ \E raises \in BOOLEAN :
     \E o1 \in IF raises THEN {"raise"} ELSE ApiOutcomes :
     \E o2 \in IF ~raises /\ o1 \in FailedOutcomes
                   /\ llm.state.current_model # "backup"
                THEN ApiOutcomes ELSE {o1} :
     \E text \in IF ~raises /\ (o1 \notin FailedOutcomes
                                  \/ o2 \notin FailedOutcomes)
                  THEN ReplyTexts ELSE {NoText} :
       LET r == get_chat_response(llm.state, <<o1, o2>>, raises, text)
       IN /\ llm' = [state |-> r.llm,
                     last |-> [called |-> r.called,
                               use_backup_on_failure |-> TRUE,
                               before |-> llm.state,
                               requests |-> r.requests,
                               result |-> r.result,
                               total_requests |->
                                  llm.last.total_requests + Len(r.requests),
                               total_failures |->
                                  llm.last.total_failures
                                    + Failures(r.requests)]]
          /\ parsed' = [called |-> TRUE, text |-> r.reply,
                        commands |-> _parse_commands(r.reply),
                        llm_failed |-> r.failed]
  /\ UNCHANGED <<loop_vars, framework, fw_trace, probe, detected, session>>

NextReply == GetChatResponse

SpecReply == InitDefault /\ [][NextReply]_vars

\* ================================================= claims on the agent
Recovered == {"recovered_goto", "recovered_back"}

\* ------------------------------------------------------------------ C1
\* C1: once auto-recovery has been executed while handling command i of a
\* batch, the loop is left: no command j > i is executed and the outcome
\* log has no entry of such a command (the recovery notice is its last).
C1_BatchAbort ==
  \A k \in 1..Len(command_results) :
    command_results[k].text \in Recovered =>
      /\ pc = "idle"
      /\ idx = command_results[k].cmd
      /\ k = Len(command_results)
      /\ \A m \in 1..Len(command_results) :
           command_results[m].cmd <= command_results[k].cmd

\* a recovery at a command that is not the last of its batch
C1_Witness ==
  /\ Len(command_results) > 0
  /\ command_results[Len(command_results)].text \in Recovered
  /\ trace.recovered
  /\ Len(commands) > idx

\* ------------------------------------------------------------------ C2
\* C2: with auto-recovery enabled, a recovery is attempted for every
\* handled anomaly whose level reaches error_recovery_level or that makes
\* consecutive_errors >= 2.
C2_ThresholdTriggers ==
  (/\ auto_recovery
   /\ trace.handler_called
   /\ (trace.error_level >= error_recovery_level
        \/ trace.errors_after_mark >= 2)) => trace.nav # {}

C4_AdvisoryPrecedence ==
  trace.classified =>
    /\ trace.is_normal = "True" =>
         /\ ~trace.handler_called /\ trace.nav = {} /\ ~trace.recovered
         /\ state_tracker.last_stable_url = trace.stable_url
         /\ state_tracker.consecutive_errors = 0
         /\ ~state_tracker.has_error
         /\ state_tracker.state_history[Len(state_tracker.state_history)]
              = [url |-> trace.stable_url, is_stable |-> TRUE]
    /\ trace.is_normal = "False" =>
         (trace.handler_called /\ trace.error_level = 3)
    /\ trace.is_normal = "None" =>
         /\ trace.handler_called <=> trace.rule_level >= 1
         /\ trace.handler_called => trace.error_level = trace.rule_level

\* a page the rules put at level 3, judged normal and recorded as stable
C4_Witness ==
  /\ trace.classified
  /\ trace.is_normal = "True"
  /\ trace.rule_level = 3
  /\ state_tracker.last_stable_url = page_url

\* ------------------------------------------------------------------ C5
\* C5: a failed advisory call counts as an indeterminate verdict: the rule
\* evaluator runs and alone decides whether the handler is called.
C5_FailureDegradesToRules ==
  (trace.classified /\ trace.llm_failed) =>
    /\ trace.is_normal = "None"
    /\ trace.detect_called
    /\ trace.handler_called <=> trace.rule_level >= 1

\* ------------------------------------------------------------------ C6
\* C6 as stated: the rule evaluator runs after every successful GOTO or
\* CLICK.
C6_RuleAlwaysRuns == trace.classified => trace.detect_called

\* C6 amended: after a successful GOTO or CLICK the rule evaluator runs
\* exactly when the advisory verdict is None, and its result then decides.
C6_RuleOnlyWhenIndeterminate ==
  trace.classified =>
    /\ trace.detect_called <=> trace.is_normal = "None"
    /\ trace.detect_called =>
         /\ trace.handler_called <=> trace.rule_level >= 1
         /\ trace.handler_called => trace.error_level = trace.rule_level

\* the rules found an anomaly on a page the advisory could not judge
C6_Witness ==
  /\ trace.classified
  /\ trace.is_normal = "None"
  /\ trace.detect_called
  /\ trace.handler_called
  /\ trace.error_level = 2

\* ============================================== claims on the tracker
\* ------------------------------------------------ what the call log implies
IsRealUrl(url) == url # "" /\ url # "about:blank"

\* a call that records a stable page state
IsStableRecord(c) == c.op = "record_url" /\ c.is_stable /\ IsRealUrl(c.url)

LastCall == calls[Len(calls)]

RECURSIVE ExpectedStable(_)
\* the URL of the most recent stable page state recorded by the calls of log
\* since construction or the last clear(); None when there is none
ExpectedStable(log) ==
  IF Len(log) = 0 THEN None
  ELSE LET c == log[Len(log)] IN
       IF c.op = "clear" THEN None
       ELSE IF IsStableRecord(c) THEN c.url
       ELSE ExpectedStable(ButLast(log))

RECURSIVE RecordedUrls(_)
\* the URLs recorded (by record_url or mark_error) since construction or the
\* last clear(), in call order
RecordedUrls(log) ==
  IF Len(log) = 0 THEN <<>>
  ELSE LET c == log[Len(log)] IN
       IF c.op = "clear" THEN <<>>
       ELSE IF IsRealUrl(c.url) THEN Append(RecordedUrls(ButLast(log)), c.url)
       ELSE RecordedUrls(ButLast(log))

RECURSIVE MarksSinceStable(_)
\* the number of mark_error calls since construction, the last clear() or
\* the last recorded stable page state
MarksSinceStable(log) ==
  IF Len(log) = 0 THEN 0
  ELSE LET c == log[Len(log)] IN
       IF c.op = "clear" \/ IsStableRecord(c) THEN 0
       ELSE IF c.op = "mark_error" THEN 1 + MarksSinceStable(ButLast(log))
       ELSE MarksSinceStable(ButLast(log))

SeqToSet(s) == {s[i] : i \in 1..Len(s)}

\* ------------------------------------------------------------------ C7
\* C7: last_stable_url is None when no stable page state has been recorded
\* since construction or the last clear(), and otherwise the URL of the most
\* recently recorded stable page state; get_recovery_url returns it, also
\* after the entry has left the bounded history.
C7_StablePointer ==
  /\ state_tracker.last_stable_url = ExpectedStable(calls)
  /\ state_tracker.last_stable_url # None =>
       get_recovery_url(state_tracker) = state_tracker.last_stable_url

\* a stable URL that has been evicted from the history is still the pointer
C7_Witness ==
  /\ state_tracker.last_stable_url # None
  /\ state_tracker.last_stable_url \notin SeqToSet(state_tracker.url_history)
  /\ Len(state_tracker.url_history) = state_tracker.max_history
  /\ get_recovery_url(state_tracker) = state_tracker.last_stable_url

\* ------------------------------------------------------------------ C8
\* C8 as stated: last_stable_url changes only in a call of record_url with
\* is_stable = true.
C8_OnlyStableRecord ==
  [][state_tracker'.last_stable_url # state_tracker.last_stable_url =>
       (calls'[Len(calls')].op = "record_url" /\ calls'[Len(calls')].is_stable)]_vars

\* C8 amended: last_stable_url changes only in a call of record_url with
\* is_stable = true or in a call of clear() (which resets it to None);
\* record_url with is_stable = false and mark_error never change it.
C8_StableOrClear ==
  [][/\ state_tracker'.last_stable_url # state_tracker.last_stable_url =>
          \/ IsStableRecord(calls'[Len(calls')])
          \/ (calls'[Len(calls')].op = "clear"
               /\ state_tracker'.last_stable_url = None)
     /\ (Len(calls') > Len(calls) /\ ~IsStableRecord(calls'[Len(calls')])
          /\ calls'[Len(calls')].op # "clear") =>
          state_tracker'.last_stable_url = state_tracker.last_stable_url]_vars

\* mark_error was the last call, on a real URL other than the stable one,
\* and the pointer is still set
C8_Witness ==
  /\ Len(calls) > 0
  /\ LastCall.op = "mark_error"
  /\ IsRealUrl(LastCall.url)
  /\ state_tracker.last_stable_url # None
  /\ state_tracker.last_stable_url # LastCall.url

\* ------------------------------------------------------------------ C9
\* C9: the history holds at most max_history entries, namely the last
\* max_history recorded URLs in call order, and never about:blank or "".
C9_HistoryBound ==
  /\ Len(state_tracker.url_history) <= state_tracker.max_history
  /\ state_tracker.url_history =
       LastN(RecordedUrls(calls), state_tracker.max_history)
  /\ Len(state_tracker.state_history) = Len(state_tracker.url_history)
  /\ \A i \in 1..Len(state_tracker.url_history) :
       /\ state_tracker.state_history[i].url = state_tracker.url_history[i]
       /\ IsRealUrl(state_tracker.url_history[i])

\* more URLs recorded than the history holds, the oldest one gone
C9_Witness ==
  /\ Len(RecordedUrls(calls)) > state_tracker.max_history
  /\ Len(state_tracker.url_history) = state_tracker.max_history
  /\ RecordedUrls(calls)[1] \notin SeqToSet(state_tracker.url_history)
  /\ \E c \in SeqToSet(calls) : ~IsRealUrl(c.url) /\ c.op # "clear"

\* ----------------------------------------------------------------- C10
\* C10 as stated: a call record_url(url, is_stable = true) leaves
\* consecutive_errors at 0 for any url argument.
C10_AnyUrlResets ==
  (Len(calls) > 0 /\ LastCall.op = "record_url" /\ LastCall.is_stable) =>
     state_tracker.consecutive_errors = 0

\* C10 amended: consecutive_errors is the number of mark_error calls since
\* the last reset (k after k calls in a row), and a call
\* record_url(url, is_stable = true) resets it to 0 for every url other than
\* "" and about:blank, for which the call is ignored and the counter kept.
C10_RealUrlResets ==
  /\ state_tracker.consecutive_errors = MarksSinceStable(calls)
  /\ (Len(calls) > 0 /\ IsStableRecord(LastCall)) =>
        state_tracker.consecutive_errors = 0
  /\ (Len(calls) > 1 /\ LastCall.op = "record_url" /\ ~IsRealUrl(LastCall.url)) =>
        state_tracker.consecutive_errors = MarksSinceStable(ButLast(calls))

\* two mark_error calls in a row, then a stable record that reset the counter
C10_Witness ==
  /\ Len(calls) >= 3
  /\ IsStableRecord(LastCall)
  /\ calls[Len(calls) - 1].op = "mark_error"
  /\ calls[Len(calls) - 2].op = "mark_error"
  /\ MarksSinceStable(ButLast(calls)) >= 2
  /\ state_tracker.consecutive_errors = 0

\* ----------------------------------------------------------------- C11
\* a stable page state has just been recorded: it is the newest entry of
\* the history, the stable pointer names it and the error flag is down
StableJustRecorded ==
  LET t == state_tracker' IN
  /\ Len(t.state_history) > 0
  /\ t.state_history[Len(t.state_history)].is_stable
  /\ t.last_stable_url = t.state_history[Len(t.state_history)].url
  /\ ~t.has_error
  /\ Len(calls') > Len(calls) => IsStableRecord(calls'[Len(calls')])

\* clear() has just been called
ClearJustCalled ==
  /\ Len(calls') > Len(calls)
  /\ calls'[Len(calls')].op = "clear"
  /\ state_tracker'.url_history = <<>>

C12_RecoveryFallback ==
  LET h == state_tracker.url_history IN
  state_tracker.last_stable_url = None =>
    get_recovery_url(state_tracker) =
      IF Len(h) >= 2 THEN h[Len(h) - 1]
      ELSE IF Len(h) = 1 THEN h[1]
      ELSE None

\* three unstable entries, the second-to-last being neither the oldest nor
\* the newest URL
C12_Witness ==
  LET h == state_tracker.url_history IN
  /\ state_tracker.last_stable_url = None
  /\ Len(h) = 3
  /\ h[2] # h[1]
  /\ get_recovery_url(state_tracker) = h[2]

\* ----------------------------------------------------------------- C13
\* the outcome log entries that suggest a manual recovery
Suggestions == {"suggest_goto", "suggestion"}

\* C13: when the handler attempted a recovery and every navigation it tried
\* failed, it returns false and the outcome log of the command holds a
\* manual-recovery suggestion, whatever the level and the tracker state.
C13_SuggestionLogged ==
  (trace.handler_called /\ trace.nav # {} /\ ~trace.recovered) =>
     \E k \in 1..Len(command_results) :
        /\ command_results[k].cmd = idx
        /\ command_results[k].text \in Suggestions

\* ----------------------------------------------------------------- C14
\* C14: when _execute_commands returns, the outcome log of the batch has
\* been appended to the messages, whatever commands the batch contains.
C14_ResultsHandedBack ==
  (pc = "idle" /\ Len(commands) > 0) =>
     \E m \in 1..Len(messages) :
        /\ messages[m].kind = "results"
        /\ messages[m].results = command_results

\* ----------------------------------------------------------------- C15
\* C15: the rule-based classifier returns the level of the first matching
\* rule in the order HTTP status >= 400 (3), SQL-error signature (3),
\* HTTP-error phrase (3), empty body (2), JS errors (1), else 0, and
\* has_error exactly when the level is >= 1.
C15_FirstRuleWins ==
  detected.called =>
    LET sig == detected.sig
        severe == sig.status >= 400 \/ sig.sql \/ sig.phrase
        level == detected.result.level
    IN /\ severe => level = 3
       /\ (~severe /\ sig.empty) => level = 2
       /\ (~severe /\ ~sig.empty /\ sig.js) => level = 1
       /\ (~severe /\ ~sig.empty /\ ~sig.js) => level = 0
       /\ detected.result.has_error <=> level >= 1

\* an empty page with JS errors and a status below 400 is level 2
C15_Witness ==
  /\ detected.called
  /\ detected.sig.status = 399
  /\ detected.sig.empty /\ detected.sig.js
  /\ ~detected.sig.sql /\ ~detected.sig.phrase
  /\ detected.result = [has_error |-> TRUE, level |-> 2]

\* ============================================ claims on the SQL probe
\* the position of a technique in the order of _test_input_point
TechRank(tech) ==
  IF tech = "boolean" THEN 1 ELSE IF tech = "error" THEN 2 ELSE 3

\* the payload requests of the probe of the current input point
Injections == {i \in 1..Len(probe.log) : probe.log[i].op = "inject"}

C17_ColumnCount ==
  probe.obs.tech = "union" =>
    /\ probe.obs.first_fail >= 1 =>
          probe.obs.column_count = probe.obs.first_fail - 1
    /\ (probe.obs.uniform /\ probe.obs.k = 4) =>
          /\ probe.obs.column_count = 3
          /\ \E i \in Injections : probe.log[i] = Inject("union", 3)
    /\ probe.obs.first_fail = 1 =>
          \A i \in Injections : probe.log[i].tech # "union"

\* ----------------------------------------------------------------- C18
\* C18: every payload request is followed by a go-back before the next
\* payload request and before the technique returns.
C18_InjectThenRestore ==
  \A i \in Injections :
     i < Len(probe.log) /\ probe.log[i + 1].op = "back"

\* ----------------------------------------------------------------- C19
\* C19: the boolean oracle fires exactly when the two responses differ
\* substantially (the true one is more than 50 longer, or the false one
\* has the no-results marker) and neither is a parse-error page.
C19_BooleanOracle ==
  probe.obs.tech = "boolean" =>
    LET t == probe.obs.pair.t
        f == probe.obs.pair.f
    IN (probe.technique = "boolean") <=>
         /\ t # f
         /\ (t.len - f.len > 50 \/ f.no_results)
         /\ ~t.parse_error /\ ~f.parse_error

\* ====================================== claims on the test framework
\* ----------------------------------------------------------------- C20
\* C20: a command leaves Recon (for Baseline, with the progress back at 0)
\* exactly when the progress it is checked with is >= 80, at least one
\* security mechanism and at least two distinct input points are known;
\* the phase never goes back.
C20_ReconExit ==
  (fw_trace.called /\ ~fw_trace.cmd.empty) =>
    /\ framework.current_phase >= fw_trace.phase_before
    /\ \A i \in 1..Len(framework.input_points) :
         \A j \in 1..Len(framework.input_points) :
           framework.input_points[i] = framework.input_points[j] => i = j
    /\ fw_trace.phase_before = PHASE_RECON =>
         /\ (framework.current_phase # PHASE_RECON) <=>
               /\ fw_trace.progress_checked >= 80
               /\ Len(framework.security_mechanisms) >= 1
               /\ Len(framework.input_points) >= 2
         /\ framework.current_phase # PHASE_RECON =>
               /\ framework.current_phase = PHASE_BASELINE
               /\ framework.phase_progress = 0

\* Recon was at a progress of 80 or more with one input point; the TYPE
\* command that added the second one moved the framework to Baseline
C20_Witness ==
  /\ fw_trace.called
  /\ fw_trace.phase_before = PHASE_RECON
  /\ fw_trace.progress_before >= 80
  /\ fw_trace.inputs_before = 1
  /\ fw_trace.cmd.verb = "TYPE"
  /\ Len(framework.input_points) = 2
  /\ framework.current_phase = PHASE_BASELINE

\* the last step was a process_command call with a command
CommandProcessed == fw_trace.called /\ ~fw_trace.cmd.empty

\* ----------------------------------------------------------------- C21
\* C21: over any sequence of process_command calls the phase never goes
\* down, a call raises it by at most one, and from Exploit it never changes.
C21_PhaseMonotonic ==
  [][ /\ framework'.current_phase \in
           {framework.current_phase, framework.current_phase + 1}
      /\ framework'.current_phase \in PHASE_RECON..PHASE_EXPLOIT
      /\ framework.current_phase = PHASE_EXPLOIT =>
           framework'.current_phase = PHASE_EXPLOIT ]_vars

\* a command that counts for the progress was processed in Exploit, and the
\* phase is still Exploit
C21_Witness ==
  /\ CommandProcessed
  /\ fw_trace.phase_before = PHASE_EXPLOIT
  /\ fw_trace.cmd.verb = "TYPE"
  /\ "quote" \in fw_trace.cmd.marks
  /\ framework.phase_progress > 0
  /\ framework.current_phase = PHASE_EXPLOIT

\* ----------------------------------------------------------------- C22
\* C22: a command processed in Baseline moves the framework to Planning
\* exactly when the progress after it is >= 60, one processed in Planning
\* moves it to Exploit exactly when the progress after it is >= 70 (so the
\* framework never rests in Baseline at 60 or in Planning at 70), and right
\* after every transition the progress is 0.
C22_LaterTransitions ==
  /\ framework.current_phase = PHASE_BASELINE => framework.phase_progress < 60
  /\ framework.current_phase = PHASE_PLANNING => framework.phase_progress < 70
  /\ CommandProcessed =>
       /\ fw_trace.phase_before = PHASE_BASELINE =>
            ((framework.current_phase = PHASE_PLANNING)
               <=> fw_trace.progress_checked >= 60)
       /\ fw_trace.phase_before = PHASE_PLANNING =>
            ((framework.current_phase = PHASE_EXPLOIT)
               <=> fw_trace.progress_checked >= 70)
       /\ framework.current_phase # fw_trace.phase_before =>
            framework.phase_progress = 0

\* a command took the progress of Baseline to exactly 60 and the framework
\* went to Planning with the progress at 0
C22_Witness ==
  /\ CommandProcessed
  /\ fw_trace.phase_before = PHASE_BASELINE
  /\ fw_trace.progress_before < 60
  /\ fw_trace.progress_checked = 60
  /\ framework.current_phase = PHASE_PLANNING
  /\ framework.phase_progress = 0

\* ----------------------------------------------------------------- C23
\* C23: process_command returns the introduction of Baseline, Planning or
\* Exploit in the call whose command moved the framework into that phase
\* and in no other call, so once for each phase entered; no introduction is
\* ever returned for Recon.
PhaseIntroMessages ==
  {PhaseIntros(p) : p \in PHASE_BASELINE..PHASE_EXPLOIT}

C23_IntroOnce ==
  /\ \A p \in PHASE_RECON..PHASE_EXPLOIT :
       framework.phase_intro_sent[p] <=>
          (p = PHASE_RECON \/ p <= framework.current_phase)
  /\ PhaseIntros(PHASE_RECON) = None
  /\ None \notin PhaseIntroMessages
  /\ Cardinality(PhaseIntroMessages) = 3
  /\ fw_trace.guidance \in PhaseIntroMessages => CommandProcessed
  /\ CommandProcessed =>
       IF framework.current_phase # fw_trace.phase_before
       THEN fw_trace.guidance = PhaseIntros(framework.current_phase)
       ELSE fw_trace.guidance \notin PhaseIntroMessages

\* the tenth command, at which the periodic guidance is due, moved the
\* framework to Baseline and the call returned the introduction
C23_Witness ==
  /\ CommandProcessed
  /\ framework.command_counter = 10
  /\ fw_trace.phase_before = PHASE_RECON
  /\ framework.current_phase = PHASE_BASELINE
  /\ fw_trace.guidance = "intro_baseline"

\* ----------------------------------------------------------------- C25
\* C25: phase_progress is always an integer from 0 to 100, and a command
\* that leaves the phase as it was never lowers it.
C25_ProgressRange ==
  /\ framework.phase_progress \in 0..100
  /\ (CommandProcessed /\ framework.current_phase = fw_trace.phase_before) =>
       framework.phase_progress >= fw_trace.progress_before

\* Recon stood at 90 and a THINK naming two mechanisms, worth 20, left the
\* progress at 100
C25_Witness ==
  /\ CommandProcessed
  /\ fw_trace.phase_before = PHASE_RECON
  /\ fw_trace.progress_before = 90
  /\ fw_trace.cmd.verb = "THINK"
  /\ {"yzm", "csrf"} \subseteq fw_trace.cmd.marks
  /\ framework.current_phase = PHASE_RECON
  /\ framework.phase_progress = 100

\* ================================================ claims on the LLM client
\* ----------------------------------------------------------------- C29
\* C29: when the first request of a chat_completion call, made on the
\* primary model, fails and use_backup_on_failure is set, the call makes
\* exactly one more request, on the backup model, and returns what that
\* request gives (None if it fails too); no call makes more than two
\* requests; call_count grows by two, error_count by the number of failed
\* requests, and current_model is the backup model afterwards.
C29_BackupOnce ==
  llm.last.called =>
    /\ Len(llm.last.requests) \in 1..2
    /\ ( /\ llm.last.use_backup_on_failure
         /\ llm.last.before.current_model = "primary"
         /\ llm.last.requests[1].outcome \in FailedOutcomes )
       => /\ Len(llm.last.requests) = 2
          /\ llm.last.requests[1].model = "primary"
          /\ llm.last.requests[2].model = "backup"
          /\ llm.last.result =
               (IF llm.last.requests[2].outcome \in FailedOutcomes
                THEN None ELSE Content("backup"))
          /\ llm.state.call_count = llm.last.before.call_count + 2
          /\ llm.state.error_count =
               llm.last.before.error_count + Failures(llm.last.requests)
          /\ llm.state.error_count >= llm.last.before.error_count + 1
          /\ llm.state.current_model = "backup"

\* the request on the primary model raised, the one on the backup model
\* answered, and the call returned the backup model's text with one error
\* counted
C29_Witness ==
  /\ llm.last.called
  /\ llm.last.use_backup_on_failure
  /\ Len(llm.last.requests) = 2
  /\ llm.last.requests[1] = [model |-> "primary", outcome |-> "raise"]
  /\ llm.last.requests[2] = [model |-> "backup", outcome |-> "content"]
  /\ llm.last.result = "backup_text"
  /\ llm.state.error_count = llm.last.before.error_count + 1
  /\ llm.state.current_model = "backup"

ChatStep == llm'.state.call_count > llm.state.call_count

\* a step that is a reset_model call: the interface changes and no request
\* is made
ResetStep == llm' # llm /\ llm'.state.call_count = llm.state.call_count

\* what C31 says of one step of the interface
ModelInUseStep ==
  /\ (ChatStep /\ llm.state.current_model = "backup")
       => /\ llm'.state.current_model = "backup"
          /\ Len(llm'.last.requests) = 1
          /\ llm'.last.requests[1].model = "backup"
          /\ llm'.state.call_count = llm.state.call_count + 1
          /\ (llm'.last.requests[1].outcome \in FailedOutcomes
                => llm'.last.result = None)
  /\ ResetStep => llm'.state.current_model = "primary"
  /\ ( /\ llm.state.current_model = "backup"
       /\ llm'.state.current_model = "primary" ) => ResetStep

\* C31: current_model is always the primary or the backup model; a call
\* made while the backup model is in use leaves it in use and makes a
\* single request, on the backup model, whatever use_backup_on_failure
\* says and whether the request fails or not; current_model goes from the
\* backup model to the primary one only by reset_model, and reset_model
\* always leaves the primary model in use.
C31_ModelInUse ==
  /\ [](llm.state.current_model \in {"primary", "backup"})
  /\ [][ModelInUseStep]_vars

\* a call that asked for the backup on failure was made while the backup
\* model was already in use; its one request failed, None was returned and
\* the backup model is still in use
C31_Witness ==
  /\ llm.last.called
  /\ llm.last.use_backup_on_failure
  /\ llm.last.before.current_model = "backup"
  /\ llm.last.requests = <<[model |-> "backup", outcome |-> "raise"]>>
  /\ llm.last.result = None
  /\ llm.state.current_model = "backup"

\* ===================================================== claims on Agent.run
\* ----------------------------------------------------------------- C28
\* C28: run launches the browser at most 3 times; after a failed session
\* it pauses and launches again while fewer than 3 sessions have failed;
\* with the third failure it stops launching, makes one request for advice
\* without a browser and returns; run always comes to its end.
C28_Safety ==
  /\ session.launches <= max_browser_retries
  /\ session.retry_count <= session.launches
  /\ session.launches <= session.retry_count + 1
  /\ session.backoffs =
       (IF session.retry_count < max_browser_retries
        THEN session.retry_count ELSE max_browser_retries - 1)
  /\ session.advisory =
       (IF session.retry_count = max_browser_retries THEN 1 ELSE 0)
  /\ session.retry_count = max_browser_retries =>
       session.pc = "done" /\ session.returned = "advisory"
  /\ session.pc = "done" => session.returned \in {"completed", "advisory"}
  /\ (session.pc = "while" /\ session.retry_count > 0) =>
       session.launches = session.retry_count

C28_BoundedRetry == [] C28_Safety /\ <>(session.pc = "done")

\* three sessions failed, the last one after running for a while: run has
\* launched three times, paused twice, asked for advice once and returned
C28_Witness ==
  /\ session.pc = "done"
  /\ session.returned = "advisory"
  /\ session.retry_count = 3
  /\ session.launches = 3
  /\ session.backoffs = 2
  /\ session.advisory = 1
  /\ session.iteration > 0

\* ============================================ claims on the command parser
\* the verbs of the command DSL
DslVerbs ==
  { "GOTO", "CLICK", "TYPE", "SELECT", "ENTER", "SCREENSHOT", "SCROLLDOWN",
    "SCROLLUP", "WAIT", "THINK", "BACK", "REFRESH" }

\* the commands a text holds: one for each line that begins with a verb of
\* the DSL in any letter case, in the order of the lines
RECURSIVE DslCommands(_)
DslCommands(text) ==
  IF text = <<>> THEN <<>>
  ELSE LET line == CleanLine(Head(text))
       IN (IF line.role = "" /\ line.letters \in DslVerbs
           THEN << [verb |-> line.letters, casing |-> "upper",
                    colon |-> line.colon, words |-> line.words] >>
           ELSE <<>>)
            \o DslCommands(Tail(text))

\* ----------------------------------------------------------------- C26
\* C26: _parse_commands returns, in the order of the lines, one command
\* for every line that begins with a verb of the DSL (SELECT among them) in
\* any letter case, with the verb in upper case and the rest of the line
\* kept, and nothing for any other line.
C26_EveryVerbParsed ==
  parsed.called => parsed.commands = DslCommands(parsed.text)

\* =========================================== claims on the argument lists
\* a recognised command whose argument list is not what its handler needs
Malformed(cmd) ==
  \/ cmd.verb \in {"TYPE", "SELECT"} /\ cmd.arg \in {"", "one"}
  \/ cmd.verb \in {"SCROLLDOWN", "SCROLLUP", "WAIT"} /\ cmd.arg \in {"", "word"}

\* the entries that report a command as not carried out
ErrorEntries ==
  {"type_format_error", "select_format_error", "command_error",
   "unknown_command"}

\* ----------------------------------------------------------------- C27
\* C27: every command of a batch that is recognised but has a malformed
\* argument list (TYPE or SELECT with one token, WAIT or a scroll with a
\* non-numeric argument, a verb without its argument) leaves an error
\* entry in the outcome log; no exception leaves _execute_commands; and
\* the loop goes on to the end of the batch.
C27_MalformedReported ==
  /\ pc # "raised"
  /\ \A i \in 1..idx :
       Malformed(commands[i]) =>
         \E k \in 1..Len(command_results) :
           /\ command_results[k].cmd = i
           /\ command_results[k].text \in ErrorEntries
  /\ (pc = "idle" /\ batch_len > 0) => idx = batch_len

\* a batch of two ended: its first command, a WAIT with a word for a
\* number, is logged as an error, and the TYPE after it was carried out
C27_Witness ==
  /\ pc = "idle"
  /\ batch_len = 2
  /\ idx = 2
  /\ commands[1] = Cmd("WAIT", "word")
  /\ commands[2] = Cmd("TYPE", "two")
  /\ \E k \in 1..Len(command_results) :
       command_results[k] = [cmd |-> 1, text |-> "command_error"]
  /\ \E k \in 1..Len(command_results) :
       command_results[k] = [cmd |-> 2, text |-> "type_ok"]

\* ----------------------------------------------------------------- C24
\* C24: every command the loop of _execute_commands runs is handed to
\* process_command once: the framework's command counter goes up by one
\* with each command run, and the call is for that command's verb.
C24_EveryCommandObserved ==
  [][ steps' = steps + 1 =>
        /\ framework'.command_counter = framework.command_counter + 1
        /\ fw_trace'.called
        /\ fw_trace'.cmd.verb = trace'.verb ]_vars

\* ============================== claims on the tracker under the executor
\* ----------------------------------------------------------------- C32
\* the URL the command just run found in error: the page a recovery
\* handler call left the browser on, the page a SCREENSHOT's rules found
\* an error on, the page a failed GOTO marked; None if there is none
Flagged ==
  IF trace.handler_called /\ ~trace.recovered THEN page_url
  ELSE IF trace.verb = "SCREENSHOT" /\ trace.rule_level > 0 THEN page_url
  ELSE IF trace.verb = "GOTO" /\ ~trace.classified /\ page_url # ""
       THEN page_url
  ELSE None

\* the URL the command just run classified anomaly-free (after GOTO or
\* CLICK, or by the rules of SCREENSHOT), None if there is none
FoundClean ==
  IF trace.stable_url # None THEN trace.stable_url
  ELSE IF trace.verb = "SCREENSHOT" /\ trace.rule_level = 0 THEN page_url
  ELSE None

\* C32: a command makes a URL the tracker's last_stable_url only if it has
\* just classified the page at that URL anomaly-free, and after a command
\* that found the page at a URL in error (an anomaly or a navigation
\* failure) last_stable_url is not that URL.
C32_StableIsAnomalyFree ==
  [][ steps' = steps + 1 =>
        /\ ( /\ state_tracker'.last_stable_url # state_tracker.last_stable_url
             /\ state_tracker'.last_stable_url # None )
           => FoundClean' = state_tracker'.last_stable_url
        /\ Flagged' # None => state_tracker'.last_stable_url # Flagged' ]_vars

\* ----------------------------------------------------------------- C33
\* the command just run was a GOTO that failed or landed on a page
\* classified as an anomaly
GotoInError ==
  /\ trace.verb = "GOTO"
  /\ trace.handler_called \/ ~trace.classified

\* C33: a GOTO that fails or lands on an anomalous page leaves
\* consecutive_errors one above what it was, and when the command before
\* it was such a GOTO too, consecutive_errors is at least 2 afterwards.
C33_ConsecutiveErrorsCounted ==
  [][ (steps' = steps + 1 /\ GotoInError') =>
        /\ state_tracker'.consecutive_errors
             = state_tracker.consecutive_errors + 1
        /\ GotoInError => state_tracker'.consecutive_errors >= 2 ]_vars

\* ----------------------------------------------------------------- C34
\* C34: when the recovery handler has navigated (page.goto) to the
\* tracker's recovery URL, that URL is not the URL of the page the anomaly
\* was found on, which the handler has just recorded as the last entry of
\* the history.
C34_RecoveryLeavesErrorPage ==
  ( /\ trace.handler_called
    /\ "goto" \in trace.nav
    /\ state_tracker.url_history # <<>> )
  => get_recovery_url(state_tracker)
       # state_tracker.url_history[Len(state_tracker.url_history)]

\* ----------------------------------------------------------------- C35
\* the entries the command just run added to command_results
LastEntries ==
  { command_results[k].text :
      k \in { j \in 1..Len(command_results) : command_results[j].cmd = idx } }

\* C35: after a CLICK that succeeded, with the selector given or with a
\* fallback selector, the page has been classified before the next command
\* runs, and the recovery handler has been called if the classification
\* found an anomaly.
C35_ClickThenClassify ==
  ( /\ trace.verb = "CLICK"
    /\ idx >= 1
    /\ LastEntries \cap {"click_ok", "fallback_ok"} # {} )
  => /\ trace.classified
     /\ ( \/ trace.is_normal = "False"
          \/ (trace.is_normal = "None" /\ trace.rule_level >= 1) )
        => trace.handler_called

\* ----------------------------------------------------------------- C36
\* C36: the tracker's has_error is true exactly when its consecutive_errors
\* is at least 1.
C36_ErrorFlagMatchesCount ==
  state_tracker.has_error <=> state_tracker.consecutive_errors >= 1

\* =================================== claims on SQLInjectionTester.test
\* ----------------------------------------------------------------- C37
\* C37: when test() has run the database-information extraction for an
\* input point, that input point was confirmed by the union technique and
\* the column count the extraction used was found on that input point in
\* this run.
C37_ExtractionOnUnionPoint ==
  probe.test.last.extracted =>
    /\ probe.test.last.technique = "union"
    /\ probe.test.last.column_from = <<probe.test.run, probe.test.point>>

\* ----------------------------------------------------------------- C38
\* C38: when test() has returned, the status is vulnerable, secure,
\* no_input_points or error, and it is vulnerable exactly when the list of
\* vulnerable points is not empty.
C38_StatusMatchesFindings ==
  probe.test.pc = "returned" =>
    /\ probe.test.status
         \in {"vulnerable", "secure", "no_input_points", "error"}
    /\ probe.test.status = "vulnerable"
         <=> probe.test.vulnerable_points # <<>>

\* ================================= claims on the length of Agent.run
\* ----------------------------------------------------------------- C39
\* C39: over one call of run, the iterations of the main loop ask the LLM
\* for commands at most max_iterations times in total, whatever the number
\* of browser sessions that failed and were relaunched.
C39_IterationCap == session.requests <= max_iterations

\* =========================== claims on the reply to a failed LLM request
\* ----------------------------------------------------------------- C40
\* the verbs of the commands parsed last
ParsedVerbs == [i \in 1..Len(parsed.commands) |-> parsed.commands[i].verb]

\* C40: when the request of get_chat_response failed on every attempt, or
\* its content was empty, or something raised before it, the reply is the
\* made-up one and _parse_commands gets the commands SCREENSHOT and THINK
\* out of it, so the list of commands is not empty; a request that failed
\* on every attempt always ends in such a reply.
C40_FailureGivesCommands ==
  parsed.called =>
    /\ parsed.llm_failed =>
         /\ parsed.commands # <<>>
         /\ ParsedVerbs = <<"SCREENSHOT", "THINK">>
    /\ (llm.last.called /\ llm.last.result = None) => parsed.llm_failed
    /\ ~llm.last.called => parsed.llm_failed

\* both the request on the primary model and the one on the backup model
\* failed, and the reply parsed to SCREENSHOT and THINK
C40_Witness ==
  /\ parsed.called
  /\ parsed.llm_failed
  /\ llm.last.called
  /\ Len(llm.last.requests) = 2
  /\ Failures(llm.last.requests) = 2
  /\ llm.last.result = None
  /\ ParsedVerbs = <<"SCREENSHOT", "THINK">>

====
